---- MODULE Spec2Model ----
(***************************************************************************)
(* Model of the per-session request coordinator of backend-go/main.go:     *)
(* the registry of per-session message queues, the chat handler, the       *)
(* queue worker (processQueue), the upstream proxy (executeClaudeCLI),     *)
(* the SSE fan-out loop and the session directory cache with the handlers  *)
(* that invalidate it.                                                     *)
(***************************************************************************)
EXTENDS Integers, Sequences, FiniteSets, TLC

\* ------------------------------------------------------------------ bounds
\* Number of POST /api/chat requests of a behaviour (turn t is the t-th to arrive).
MaxTurns == 2
\* Number of lines the upstream sends on one response stream before it ends,
\* when one turn is followed through the proxy.
MaxFrames == 3
\* The same, when several turns are followed through the queues.
CoordFrames == 1
\* Number of session ids clients send (UUIDs chosen by the clients).
NumClientIds == 2

\* The same, when one turn is followed until the channel buffer is full.
FanoutFrames == 103

\* Number of lifecycle requests (list, delete, fork) of a behaviour.
MaxOps == 2
\* The same, when the mutexes are followed.
LockOps == 2
\* The same, when forks race with deletes.
ForkOps == 3

\* eventChan := make(chan sseEvent, 100)
ChanCap == 100
\* if len(msg) > 10000
MaxMessageLen == 10000
\* if len(name) > 255
MaxNameLen == 255
\* Cache válido por 5 minutos (time.Since(entry.timestamp) > 5*time.Minute),
\* in seconds
CacheTTL == 300

Turns == 1..MaxTurns
\* session_id of a request: 0 is an absent (nil or "") session_id.
NoSession == 0
ClientIds == 1..NumClientIds
\* uuid.New().String() of the handler of turn t: different from every other id.
MintedId(t) == NumClientIds + t
SessionIds == 1..(NumClientIds + MaxTurns)
\* project_name of a request: "" is an absent project_name.
NoProject == ""
Projects == {"p1"}
\* A project name that names the parent directory.
DotDot == ".."
\* Queue objects (&messageQueue{}) are numbered in allocation order; 0 is nil.
\* A handler and a worker call getOrCreateQueue once each, per turn.
NoQueue == 0
QueueObjs == 1..(2 * MaxTurns)
\* Lifecycle requests are numbered in arrival order.
Ops == 1..(CHOOSE n \in {MaxOps, LockOps, ForkOps} :
              \A m \in {MaxOps, LockOps, ForkOps} : n >= m)

\* Threads: the chat handler of each turn, the worker it launches, and the
\* handler of each lifecycle request.
Handler(t) == <<"handler", t>>
Worker(t) == <<"worker", t>>
OpHandler(o) == <<"op", o>>
Threads == {Handler(t) : t \in Turns} \cup {Worker(t) : t \in Turns}
           \cup {OpHandler(o) : o \in Ops}

\* Directories: the base directory, projects/<name>, projetos/<name>.
BaseDir == [root |-> "base", name |-> ""]
\* filepath.Join(root, name) of a root under the base directory and a project
\* name: the joined path is cleaned, so the name ".." leads to the base directory.
Join(root, name) ==
  IF name = DotDot THEN BaseDir ELSE [root |-> root, name |-> name]
\* getClaudeProjectsDir(), getClaudeProjetosDir()
ProjectsRoot == "projects"
ProjetosRoot == "projetos"
ProjectsDir(p) == Join(ProjectsRoot, p)
ProjetosDir(p) == Join(ProjetosRoot, p)
\* validatePath(path, basePath) of a joined path: nil (TRUE) when the cleaned
\* path holds no ".." and starts with the base path.
validatePath(path, basePath) ==
  /\ path.name # DotDot
  /\ path.root = basePath

VARIABLES
  \* ---- environment of a behaviour (never changes)
  env,           \* what the clients and the upstream do: [turns, sids, projects,
                 \* frames, lines, failures, ops]; locks: Lock is followed as
                 \* a step of its own (else a call of a locking function is one
                 \* step); invalid: clients also send requests validation rejects;
                 \* traversal: clients also send the project name "..";
                 \* apikey: the API_KEY of the server's environment; keys: the
                 \* X-API-Key headers clients send; names: the project names
                 \* of delete-project requests; mkdir: whether os.MkdirAll
                 \* of a directory that does not exist may succeed, may fail
  now,           \* time.Now(), in seconds
  disconnected,  \* the client of each turn has closed its connection
  \* ---- filesystem
  fsDirs,        \* directories present under the base directory
  fsFiles,       \* <id>.jsonl files present: records [dir, id, data]
  \* ---- registry and queues
  sessionQueues, \* sessionQueues.queues: session id -> queue object (0: no entry)
  qmessages,     \* messageQueue.messages of each queue object: sequence of turns
  qprocessing,   \* messageQueue.processing of each queue object
  nqueues,       \* number of queue objects allocated so far
  \* ---- chat handler of each turn
  hpc,           \* position of the handler
  req,           \* decoded ChatRequest: [session_id, project_name, message]
  hsid,          \* sessionID local
  hdir,          \* projectDir local
  hexists,       \* sessionExists local
  hq,            \* queue local
  hprojects,     \* project names whose cache entries the handler invalidates
  \* ---- worker launched by the handler of each turn (go processQueue)
  wpc,           \* position of the worker
  wq,            \* queue local
  wmsg,          \* msg local: the turn being proxied (0: none)
  \* ---- upstream call and event channel of each turn
  ucall,         \* executeClaudeCLI call of each turn: its sessionID, projectDir
                 \* and sessionExists arguments, the project_id of its payload,
                 \* and the number of calls made for the turn
  ustate,        \* upstream call: none, failed, open, eof, err
  nread,         \* lines read from the response stream
  chan,          \* buffered events of eventChan
  closed,        \* eventChan closed
  sse,           \* SSE frames written to the client
  \* ---- session cache
  sessionCache,  \* sessionCache.data: project name -> entry
  \* ---- lifecycle handlers (list sessions, delete session, delete project, fork)
  op,            \* each request: [kind, pc, project, id, target, sessions, status,
                 \* data] and what it met: hit and age (cache get of a list),
                 \* present (the file or project directory to delete, or the
                 \* target of a fork, existed when the request arrived)
  \* ---- history (not program state)
  enqOrder,      \* turns in the order they were appended to a queue
  closeOrder,    \* turns in the order their channels were closed
  closer,        \* worker that closed the channel of each turn (0: none)
  dequeuer,      \* workers that dequeued each turn
  chanPanic,     \* a send on a closed channel or a second close happened
  mutated,       \* projects a mutation has completed on, with no cache get since
  \* ---- mutexes
  held           \* the locks each thread holds (followed by SpecLocks only)

fsVars == <<fsDirs, fsFiles>>
queueVars == <<sessionQueues, qmessages, qprocessing, nqueues>>
handlerVars == <<hpc, req, hsid, hdir, hexists, hq, hprojects>>
workerVars == <<wpc, wq, wmsg>>
chanVars == <<ustate, nread, chan, closed, sse>>
histVars == <<enqOrder, closeOrder, closer, dequeuer, chanPanic>>
chatVars == <<queueVars, handlerVars, workerVars, chanVars, histVars>>
vars == <<env, now, disconnected, fsVars, chatVars, sessionCache, op, mutated, held,
          ucall>>

\* ------------------------------------------------------------------ events
\* sseEvent{eventType, content, sessionID}
TextEvent(c) == [eventType |-> "text", content |-> c, sessionID |-> NoSession]
ErrorEvent(c) == [eventType |-> "error", content |-> c, sessionID |-> NoSession]
DoneEvent(s) == [eventType |-> "done", content |-> "", sessionID |-> s]

\* SSEMessage{Type, Content, SessionID} built from an event by the fan-out loop
\* (session_id is omitted from the frame when nil: NoSession here).
SSEMessage(event) ==
  IF event.eventType = "text" THEN
    [type |-> "text", content |-> event.content, session_id |-> NoSession]
  ELSE IF event.eventType = "error" THEN
    [type |-> "error", content |-> event.content, session_id |-> NoSession]
  ELSE IF event.eventType = "done" THEN
    [type |-> "done", content |-> "", session_id |-> event.sessionID]
  ELSE [type |-> "", content |-> "", session_id |-> NoSession]

\* ------------------------------------------------------------------ upstream lines
\* One line of the upstream response, as reader.ReadString('\n') returns it.
\* kind: blank (empty after TrimSpace), nodata (no "data: " prefix), badjson
\* (json.Unmarshal fails), data (a JSON object). A data line has a "type" and
\* may have string fields "content", "text", "error" (NoField: the field is
\* absent or not a string, so that data["content"].(string) is not ok).
NoField == "(absent)"
\* at: the position in the stream at which the upstream sends the line (0: at
\* any position).
DataLine(ty, c, x, e) ==
  [kind |-> "data", type |-> ty, content |-> c, text |-> x, error |-> e, at |-> 0,
   call |-> 0]
OtherLine(k) ==
  [kind |-> k, type |-> "", content |-> NoField, text |-> NoField, error |-> NoField,
   at |-> 0, call |-> 0]
\* The i-th line of a stream of text frames: its content is its number.
StreamLine(i) == [DataLine("text", ToString(i), NoField, NoField) EXCEPT !.at = i]
Lines ==
  { DataLine("text", "c", NoField, NoField), DataLine("text", NoField, "t", NoField),
    DataLine("text", "c", "t", NoField), DataLine("text", NoField, NoField, NoField),
    DataLine("text", "", NoField, NoField),
    DataLine("content", "c", NoField, NoField),
    DataLine("done", NoField, NoField, NoField), DataLine("session_created", NoField, NoField, NoField),
    DataLine("error", NoField, NoField, "e"), DataLine("error", NoField, NoField, NoField),
    DataLine("ping", NoField, NoField, NoField),
    OtherLine("blank"), OtherLine("nodata"), OtherLine("badjson") }

\* A response stream with a line of every kind.
Script ==
  << DataLine("text", "c", NoField, NoField), DataLine("text", NoField, "t", NoField),
     DataLine("text", "c", "t", NoField), DataLine("content", "c", NoField, NoField),
     DataLine("content", NoField, "t", NoField), DataLine("text", "", "t", NoField),
     DataLine("session_created", NoField, NoField, NoField),
     DataLine("error", NoField, NoField, "e"), DataLine("ping", NoField, NoField, NoField),
     OtherLine("nodata"), OtherLine("blank"), OtherLine("badjson"),
     DataLine("done", NoField, NoField, NoField),
     DataLine("text", NoField, NoField, NoField),
     DataLine("error", NoField, NoField, NoField) >>
\* The i-th line of the stream Script.
ScriptLine(i) == [Script[i] EXCEPT !.at = i]
\* The i-th line of the response to the call made for the turn m, of an
\* upstream whose text depends on the request: a text line that names the turn
\* and the position, and a done line at the position last.
ReplyLine(m, i, last) ==
  IF i = last
  THEN [DataLine("done", NoField, NoField, NoField) EXCEPT !.at = i, !.call = m]
  ELSE [DataLine("text", ToString(10 * m + i), NoField, NoField)
          EXCEPT !.at = i, !.call = m]

\* The events executeClaudeCLI sends for one line of the stream (none or one).
MapLine(line, sessionID) ==
  IF line.kind # "data" THEN <<>>
  ELSE IF line.type = "text" \/ line.type = "content" THEN
         IF line.content # NoField THEN <<TextEvent(line.content)>>
         ELSE IF line.text # NoField THEN <<TextEvent(line.text)>>
         ELSE <<>>
  ELSE IF line.type = "done" \/ line.type = "session_created" THEN
         <<DoneEvent(sessionID)>>
  ELSE IF line.type = "error" THEN
         IF line.error # NoField THEN <<ErrorEvent(line.error)>> ELSE <<>>
  ELSE <<>>

\* Failures of executeClaudeCLI before the stream is read, with the event sent.
\* marshal: json.Marshal, request: http.NewRequestWithContext, connect:
\* client.Do, status: resp.StatusCode != 200.
PreStreamFailures == {"marshal", "request", "connect", "status"}

\* ------------------------------------------------------------------ filesystem
\* The file <id>.jsonl of a directory, with its bytes (a number stands for the
\* transcript written: the file of the session i starts as the transcript i).
SessionFile(dir, id, data) == [dir |-> dir, id |-> id, data |-> data]
\* No bytes read.
NoData == 0
FileExists(dir, id) == \E f \in fsFiles : f.dir = dir /\ f.id = id
\* os.ReadFile of an existing file
ReadFile(dir, id) == (CHOOSE f \in fsFiles : f.dir = dir /\ f.id = id).data
\* os.Remove: the files left
Remove(files, dir, id) == {f \in files : ~(f.dir = dir /\ f.id = id)}
\* os.WriteFile: the file is created or truncated, then written
WriteFile(files, dir, id, data) == Remove(files, dir, id) \cup {SessionFile(dir, id, data)}

\* os.ReadDir order (sorted by name) of the project names.
ProjectOrder == <<"p1">>

\* The directories under projects/ that hold <id>.jsonl, in ReadDir order.
ProjectsHolding(id) ==
  SelectSeq(ProjectOrder,
            LAMBDA p : ProjectsDir(p) \in fsDirs /\ FileExists(ProjectsDir(p), id))

\* The ids of the *.jsonl files at the top level of the base directory.
SessionsIn(dir) == {f.id : f \in {g \in fsFiles : g.dir = dir}}
BaseSessions == SessionsIn(BaseDir)
\* The ids of a set in ascending order (os.ReadDir returns entries sorted by name).
RECURSIVE Sorted(_)
Sorted(S) == IF S = {} THEN <<>>
             ELSE LET m == CHOOSE x \in S : \A y \in S : x <= y
                  IN <<m>> \o Sorted(S \ {m})
Min(S) == CHOOSE x \in S : \A y \in S : x <= y

\* The session locator without the probe of projects/<project>/<id>.jsonl: a
\* request that names a project is resolved to projetos/<project>.
Locate_NoProbe(r, t) ==
  IF r.session_id # NoSession THEN
    IF r.project_name # NoProject THEN
      [sessionID |-> r.session_id, projectDir |-> ProjetosDir(r.project_name),
       sessionExists |-> FALSE, mkdir |-> TRUE]
    ELSE
      IF Len(ProjectsHolding(r.session_id)) > 0
      THEN [sessionID |-> r.session_id,
            projectDir |-> ProjectsDir(Head(ProjectsHolding(r.session_id))),
            sessionExists |-> TRUE, mkdir |-> FALSE]
      ELSE [sessionID |-> r.session_id, projectDir |-> BaseDir,
            sessionExists |-> FALSE, mkdir |-> FALSE]
  ELSE
    IF BaseSessions # {}
    THEN [sessionID |-> Min(BaseSessions), projectDir |-> BaseDir,
          sessionExists |-> TRUE, mkdir |-> FALSE]
    ELSE [sessionID |-> MintedId(t), projectDir |-> BaseDir,
          sessionExists |-> FALSE, mkdir |-> FALSE]

\* The session locator of the chat handler: the sessionID, projectDir and
\* sessionExists locals, and the directory MkdirAll creates (mkdir = TRUE).
Locate(r, t) ==
  IF r.session_id # NoSession THEN
    IF r.project_name # NoProject THEN
      IF FileExists(ProjectsDir(r.project_name), r.session_id)
      THEN [sessionID |-> r.session_id, projectDir |-> ProjectsDir(r.project_name),
            sessionExists |-> TRUE, mkdir |-> FALSE]
      ELSE [sessionID |-> r.session_id, projectDir |-> ProjetosDir(r.project_name),
            sessionExists |-> FALSE, mkdir |-> TRUE]
    ELSE
      IF Len(ProjectsHolding(r.session_id)) > 0
      THEN [sessionID |-> r.session_id,
            projectDir |-> ProjectsDir(Head(ProjectsHolding(r.session_id))),
            sessionExists |-> TRUE, mkdir |-> FALSE]
      ELSE [sessionID |-> r.session_id, projectDir |-> BaseDir,
            sessionExists |-> FALSE, mkdir |-> FALSE]
  ELSE
    IF BaseSessions # {}
    THEN [sessionID |-> Min(BaseSessions), projectDir |-> BaseDir,
          sessionExists |-> TRUE, mkdir |-> FALSE]
    ELSE [sessionID |-> MintedId(t), projectDir |-> BaseDir,
          sessionExists |-> FALSE, mkdir |-> FALSE]

\* ------------------------------------------------------------------ registry and queue
\* getOrCreateQueue with one queue for all session ids.
getOrCreateQueue_Shared(sessionID) ==
  IF nqueues > 0
  THEN [queue |-> 1, queues |-> [sessionQueues EXCEPT ![sessionID] = 1], n |-> nqueues]
  ELSE [queue |-> 1, queues |-> [sessionQueues EXCEPT ![sessionID] = 1], n |-> 1]

\* getOrCreateQueue without the lookup: a new queue on every call.
getOrCreateQueue_AlwaysNew(sessionID) ==
  [queue |-> nqueues + 1,
   queues |-> [sessionQueues EXCEPT ![sessionID] = nqueues + 1],
   n |-> nqueues + 1]

\* getOrCreateQueue: the queue returned, the registry and the allocation count
\* after the call. A new object has messages = <<>> and processing = FALSE.
getOrCreateQueue(sessionID) ==
  IF sessionQueues[sessionID] # NoQueue
  THEN [queue |-> sessionQueues[sessionID], queues |-> sessionQueues, n |-> nqueues]
  ELSE [queue |-> nqueues + 1,
        queues |-> [sessionQueues EXCEPT ![sessionID] = nqueues + 1],
        n |-> nqueues + 1]

\* messageQueue.enqueue
enqueue(messages, msg) == Append(messages, msg)

\* dequeue returning the first message and leaving it in the list.
dequeue_KeepsFirst(messages) ==
  IF Len(messages) = 0
  THEN [ok |-> FALSE, msg |-> 0, messages |-> messages]
  ELSE [ok |-> TRUE, msg |-> Head(messages), messages |-> messages]

\* messageQueue.dequeue: (msg, true) and the remaining list, or (_, false).
dequeue(messages) ==
  IF Len(messages) = 0
  THEN [ok |-> FALSE, msg |-> 0, messages |-> messages]
  ELSE [ok |-> TRUE, msg |-> Head(messages), messages |-> Tail(messages)]

\* messageQueue.isProcessing
isProcessing(q) == qprocessing[q]

\* messageQueue.setProcessing
setProcessing(q, processing) == qprocessing' = [qprocessing EXCEPT ![q] = processing]

\* ------------------------------------------------------------------ mutexes
\* sessionQueues.Lock(), q.mu.Lock(), sessionCache.Lock(), sessionCache.RLock()
RegistryMutex == [name |-> "registry", queue |-> NoQueue, write |-> TRUE]
QueueMutex(q) == [name |-> "queue", queue |-> q, write |-> TRUE]
CacheLock == [name |-> "cache", queue |-> NoQueue, write |-> TRUE]
CacheRLock == [name |-> "cache", queue |-> NoQueue, write |-> FALSE]
NoMutex == [name |-> "none", queue |-> NoQueue, write |-> FALSE]

\* The lock the function the chat handler of t calls next takes first.
HandlerWants(t) ==
  CASE hpc[t] = "getq" -> RegistryMutex
    [] hpc[t] \in {"enqueue", "check", "start"} -> QueueMutex(hq[t])
    [] hpc[t] = "invalidate" /\ hprojects[t] # {} -> CacheLock
    [] OTHER -> NoMutex

\* processQueue taking q.mu when it is called and keeping it through the turn.
WorkerWants_WholeTurn(w) ==
  CASE wpc[w] = "getq" -> RegistryMutex
    [] wpc[w] \in {"dequeue", "clear", "exec", "stream", "close"} -> QueueMutex(wq[w])
    [] OTHER -> NoMutex

\* The lock the function the worker w calls next takes first.
WorkerWants(w) ==
  CASE wpc[w] = "getq" -> RegistryMutex
    [] wpc[w] \in {"dequeue", "clear"} -> QueueMutex(wq[w])
    [] OTHER -> NoMutex

\* The lock the function the lifecycle handler o calls next takes first.
OpWants(o) ==
  CASE op[o].kind = "list" /\ op[o].pc = "idle" -> CacheRLock
    [] op[o].pc \in {"put", "invalidate"} -> CacheLock
    [] OTHER -> NoMutex

Wants(th) ==
  CASE th[1] = "handler" -> HandlerWants(th[2])
    [] th[1] = "worker" -> WorkerWants(th[2])
    [] OTHER -> OpWants(th[2])

\* The mutex of m is free for the thread th: nobody else holds it, or it is
\* held by readers and m is a read lock.
Free(m, th) ==
  \A other \in Threads \ {th} : \A l \in held[other] :
    (l.name = m.name /\ l.queue = m.queue) => (~l.write /\ ~m.write)

\* The thread th is inside the function it called: it holds the function's lock.
Locked(th) == env.locks => (Wants(th) = NoMutex \/ Wants(th) \in held[th])

\* A locking function without its deferred Unlock.
Unlock_Missing(locks, th) == locks

\* defer Unlock() / defer RUnlock(): the locks held when the function returns.
Unlock(locks, th) == [locks EXCEPT ![th] = @ \ {Wants(th)}]

\* Lock() / RLock() of the function the thread th calls next: it blocks until
\* the mutex is free.
Lock(th) ==
  /\ env.locks
  /\ Wants(th) # NoMutex
  /\ Wants(th) \notin held[th]
  /\ Free(Wants(th), th)
  /\ held' = [held EXCEPT ![th] = @ \cup {Wants(th)}]
  /\ UNCHANGED <<env, ucall, now, disconnected, fsVars, chatVars, sessionCache, op, mutated>>

\* ------------------------------------------------------------------ session cache
\* A project name without entry in sessionCache.data.
NoEntry == [present |-> FALSE, sessions |-> <<>>, timestamp |-> 0]
\* The age of an entry that does not exist.
NoAge == 0 - 1
\* time.Since(entry.timestamp) of the entry of a project
Age(projectName) ==
  IF sessionCache[projectName].present THEN now - sessionCache[projectName].timestamp
  ELSE NoAge

\* getCachedSessions with an entry expiring when its age reaches the TTL.
getCachedSessions_ExpiresAtTTL(projectName) ==
  IF ~sessionCache[projectName].present
     \/ now - sessionCache[projectName].timestamp >= CacheTTL
  THEN [sessions |-> <<>>, found |-> FALSE]
  ELSE [sessions |-> sessionCache[projectName].sessions, found |-> TRUE]

\* getCachedSessions: (entry.sessions, true), or (nil, false)
getCachedSessions(projectName) ==
  IF ~sessionCache[projectName].present
     \/ now - sessionCache[projectName].timestamp > CacheTTL
  THEN [sessions |-> <<>>, found |-> FALSE]
  ELSE [sessions |-> sessionCache[projectName].sessions, found |-> TRUE]

\* updateSessionCache: sessionCache.data after the call
updateSessionCache(data, projectName, sessions) ==
  [data EXCEPT ![projectName] =
     [present |-> TRUE, sessions |-> sessions, timestamp |-> now]]

\* invalidateSessionCache: sessionCache.data after the call
invalidateSessionCache(data, projectName) ==
  [p \in DOMAIN data |-> IF p = projectName THEN NoEntry ELSE data[p]]

\* ------------------------------------------------------------------ validation
\* A chat message: its length in bytes, whether strings.TrimSpace leaves
\* nothing, and the substrings of the dangerous list it contains.
NoMessage == [text |-> "", len |-> 0, blank |-> TRUE, has |-> {}]
GoodMessage == [text |-> "hello", len |-> 5, blank |-> FALSE, has |-> {}]
Messages ==
  {GoodMessage,
   [text |-> "full", len |-> MaxMessageLen, blank |-> FALSE, has |-> {}],
   [text |-> "long", len |-> MaxMessageLen + 1, blank |-> FALSE, has |-> {}],
   [text |-> " ", len |-> 1, blank |-> TRUE, has |-> {}],
   [text |-> "a;b", len |-> 3, blank |-> FALSE, has |-> {";"}]}
\* dangerous := []string{...}
\* (the backquote, three line feeds and the carriage return are written by name)
Dangerous == {";", "&", "|", "backquote", "$", "(", ")", "<", ">", "LFLFLF", "CR"}

\* sanitizeMessage without the check of the dangerous list.
sanitizeMessage_NoDangerousCheck(msg) ==
  IF msg.len > MaxMessageLen THEN [ok |-> FALSE, msg |-> NoMessage]
  ELSE IF msg.blank THEN [ok |-> FALSE, msg |-> NoMessage]
  ELSE [ok |-> TRUE, msg |-> msg]

\* sanitizeMessage: (msg, nil) or ("", err)
sanitizeMessage(msg) ==
  IF msg.len > MaxMessageLen THEN [ok |-> FALSE, msg |-> NoMessage]
  ELSE IF msg.blank THEN [ok |-> FALSE, msg |-> NoMessage]
  ELSE IF msg.has \cap Dangerous # {} THEN [ok |-> FALSE, msg |-> NoMessage]
  ELSE [ok |-> TRUE, msg |-> msg]

\* The messages clients send.
ChatMessages == IF env.invalid THEN Messages ELSE {GoodMessage}

\* A project name in a request path: its length, whether strings.TrimSpace
\* leaves nothing, its characters, and whether two dots follow each other in it.
NameInfo ==
  [p1 |-> [len |-> 2, blank |-> FALSE, chars |-> {"p", "1"}, dotdot |-> FALSE],
   bar |-> [len |-> 3, blank |-> FALSE, chars |-> {"a", "|", "b"}, dotdot |-> FALSE],
   space |-> [len |-> 1, blank |-> TRUE, chars |-> {" "}, dotdot |-> FALSE],
   long |-> [len |-> MaxNameLen + 1, blank |-> FALSE, chars |-> {"a"}, dotdot |-> FALSE],
   max |-> [len |-> MaxNameLen, blank |-> FALSE, chars |-> {"a"}, dotdot |-> FALSE],
   app |-> [len |-> 3, blank |-> FALSE, chars |-> {"a", "p"}, dotdot |-> FALSE],
   diego |-> [len |-> 5, blank |-> FALSE, chars |-> {"d", "i", "e", "g", "o"},
              dotdot |-> FALSE]]
  @@ (DotDot :> [len |-> 2, blank |-> FALSE, chars |-> {"."}, dotdot |-> TRUE])
  @@ (NoProject :> [len |-> 0, blank |-> TRUE, chars |-> {}, dotdot |-> FALSE])
  @@ ("my-app" :> [len |-> 6, blank |-> FALSE, chars |-> {"m", "y", "-", "a", "p"},
                   dotdot |-> FALSE])
  @@ ("-Users-2a-diego" :>
        [len |-> 15, blank |-> FALSE,
         chars |-> {"-", "U", "s", "e", "r", "2", "a", "d", "i", "g", "o"},
         dotdot |-> FALSE])
  @@ ("-Users-a-" :> [len |-> 9, blank |-> FALSE,
                      chars |-> {"-", "U", "s", "e", "r", "a"}, dotdot |-> FALSE])
  @@ ("a.b" :> [len |-> 3, blank |-> FALSE, chars |-> {"a", ".", "b"}, dotdot |-> FALSE])
  @@ ("a..b" :> [len |-> 4, blank |-> FALSE, chars |-> {"a", ".", "b"}, dotdot |-> TRUE])
  @@ ("a/b" :> [len |-> 3, blank |-> FALSE, chars |-> {"a", "/", "b"}, dotdot |-> FALSE])
  @@ ("a:b" :> [len |-> 3, blank |-> FALSE, chars |-> {"a", ":", "b"}, dotdot |-> FALSE])
  @@ ("a*b" :> [len |-> 3, blank |-> FALSE, chars |-> {"a", "*", "b"}, dotdot |-> FALSE])
  @@ ("a?b" :> [len |-> 3, blank |-> FALSE, chars |-> {"a", "?", "b"}, dotdot |-> FALSE])
  @@ ("a<b" :> [len |-> 3, blank |-> FALSE, chars |-> {"a", "<", "b"}, dotdot |-> FALSE])
  @@ ("a>b" :> [len |-> 3, blank |-> FALSE, chars |-> {"a", ">", "b"}, dotdot |-> FALSE])
  @@ ("a\\b" :> [len |-> 3, blank |-> FALSE, chars |-> {"a", "backslash", "b"},
                 dotdot |-> FALSE])
  @@ ("a\"b" :> [len |-> 3, blank |-> FALSE, chars |-> {"a", "quote", "b"},
                 dotdot |-> FALSE])
ProjectNames == DOMAIN NameInfo
\* strings.ContainsAny(name, ...): any of the characters / . \ : * ? " < > |
\* (the backslash and the double quote are written by name)
Forbidden == {"/", ".", "backslash", ":", "*", "?", "quote", "<", ">", "|"}

\* sanitizeProjectName: (name, nil) or ("", err)
sanitizeProjectName(name) ==
  IF NameInfo[name].chars \cap Forbidden # {} THEN [ok |-> FALSE, name |-> ""]
  ELSE IF NameInfo[name].len > MaxNameLen THEN [ok |-> FALSE, name |-> ""]
  ELSE IF NameInfo[name].blank THEN [ok |-> FALSE, name |-> ""]
  ELSE [ok |-> TRUE, name |-> name]

\* The project names clients send in DELETE /api/projects/{projectName}.
DeleteNames == env.names

\* A session id that is not shaped as a UUID ("" is another).
NotUUID == 0 - 1
\* isValidUUID: the regular expression of a UUID matches
isValidUUID(id) == id \in SessionIds
\* The ids and project names clients send in POST /api/fork-session.
ForkIds == IF env.invalid THEN ClientIds \cup {NoSession, NotUUID} ELSE ClientIds
ForkProjects ==
  (IF env.invalid THEN Projects \cup {NoProject} ELSE Projects)
  \cup (IF env.traversal THEN {DotDot} ELSE {})
\* The project names clients send in DELETE /api/projects/{projectName}/sessions/{sessionID}.
DeleteSessionProjects == Projects \cup (IF env.traversal THEN {DotDot} ELSE {})

\* ------------------------------------------------------------------ authentication
\* os.Getenv("API_KEY") of a server started without the variable, and
\* r.Header.Get("X-API-Key") of a request without the header.
NoKey == ""
\* The API_KEY of a server started with the variable, and another key.
ApiKey == "secret"
WrongKey == "guess"

\* authMiddleware: next is called (TRUE), or 401 is answered (FALSE)
authMiddleware(providedKey) ==
  IF env.apikey = NoKey THEN TRUE
  ELSE providedKey = env.apikey

\* ------------------------------------------------------------------ initial state
NoOp == [kind |-> "none", pc |-> "idle", project |-> NoProject, id |-> NoSession,
         target |-> NoSession, sessions |-> <<>>, status |-> 0,
         hit |-> FALSE, age |-> NoAge, present |-> FALSE, data |-> NoData,
         key |-> NoKey]

\* A turn executeClaudeCLI was not called for.
NoCall == [sessionID |-> NoSession, projectDir |-> BaseDir, sessionExists |-> FALSE,
           project_id |-> "", called |-> FALSE, calls |-> 0]

InitChat ==
  /\ sessionQueues = [s \in SessionIds |-> NoQueue]
  /\ qmessages = [q \in QueueObjs |-> <<>>]
  /\ qprocessing = [q \in QueueObjs |-> FALSE]
  /\ nqueues = 0
  /\ hpc = [t \in Turns |-> "new"]
  /\ req = [t \in Turns |-> [session_id |-> NoSession, project_name |-> NoProject,
                            message |-> NoMessage, key |-> NoKey]]
  /\ hsid = [t \in Turns |-> NoSession]
  /\ hdir = [t \in Turns |-> BaseDir]
  /\ hexists = [t \in Turns |-> FALSE]
  /\ hq = [t \in Turns |-> NoQueue]
  /\ hprojects = [t \in Turns |-> {}]
  /\ wpc = [t \in Turns |-> "none"]
  /\ wq = [t \in Turns |-> NoQueue]
  /\ wmsg = [t \in Turns |-> 0]
  /\ ucall = [t \in Turns |-> NoCall]
  /\ ustate = [t \in Turns |-> "none"]
  /\ nread = [t \in Turns |-> 0]
  /\ chan = [t \in Turns |-> <<>>]
  /\ closed = [t \in Turns |-> FALSE]
  /\ sse = [t \in Turns |-> <<>>]
  /\ enqOrder = <<>>
  /\ closeOrder = <<>>
  /\ closer = [t \in Turns |-> 0]
  /\ dequeuer = [t \in Turns |-> {}]
  /\ chanPanic = FALSE
  /\ now = 0
  /\ disconnected = [t \in Turns |-> FALSE]
  /\ op = [o \in Ops |-> NoOp]
  /\ mutated = {}
  /\ held = [th \in Threads |-> {}]

\* Several turns on the session ids the clients name; the upstream fails to
\* connect, or streams text lines and ends.
Init ==
  /\ InitChat
  /\ env = [turns |-> MaxTurns, sids |-> ClientIds, projects |-> {NoProject},
            frames |-> CoordFrames,
            lines |-> {DataLine("text", "c", NoField, NoField), DataLine("done", NoField, NoField, NoField)},
            failures |-> {"connect"}, ops |-> 0, locks |-> FALSE, invalid |-> FALSE,
            traversal |-> FALSE, apikey |-> NoKey, keys |-> {NoKey},
            names |-> Projects,
            mkdir |-> {TRUE}]
  /\ fsDirs = {BaseDir} \cup {ProjectsDir(p) : p \in Projects}
  /\ fsFiles = {SessionFile(ProjectsDir("p1"), 1, 1)}
  /\ sessionCache = [p \in Projects |-> NoEntry]

\* ------------------------------------------------------------------ chat handler
\* ChatArrive going on to the queue after a failed os.MkdirAll instead of returning.
ChatArrive_NoReturn(t) ==
  /\ hpc[t] = "new"
  /\ t <= env.turns
  /\ IF t = 1 THEN TRUE ELSE hpc[t - 1] # "new"
  /\ \E sid \in env.sids, p \in env.projects, m \in ChatMessages, k \in env.keys,
        made \in env.mkdir :
       LET r == [session_id |-> sid, project_name |-> p, message |-> m, key |-> k]
           loc == Locate(r, t)
       IN /\ req' = [req EXCEPT ![t] = r]
          /\ IF ~authMiddleware(k)
             THEN /\ hpc' = [hpc EXCEPT ![t] = "unauthorized"]
                  /\ UNCHANGED <<hsid, hdir, hexists, fsDirs, sse>>
             ELSE IF ~sanitizeMessage(m).ok
             THEN /\ hpc' = [hpc EXCEPT ![t] = "rejected"]
                  /\ UNCHANGED <<hsid, hdir, hexists, fsDirs, sse>>
             ELSE IF loc.mkdir /\ loc.projectDir \notin fsDirs /\ ~made
             THEN /\ hsid' = [hsid EXCEPT ![t] = loc.sessionID]
                  /\ hdir' = [hdir EXCEPT ![t] = loc.projectDir]
                  /\ sse' = [sse EXCEPT ![t] = <<SSEMessage(ErrorEvent("mkdir"))>>]
                  /\ hpc' = [hpc EXCEPT ![t] = "getq"]
                  /\ UNCHANGED <<hexists, fsDirs>>
             ELSE /\ hsid' = [hsid EXCEPT ![t] = loc.sessionID]
                  /\ hdir' = [hdir EXCEPT ![t] = loc.projectDir]
                  /\ hexists' = [hexists EXCEPT ![t] = loc.sessionExists]
                  /\ fsDirs' = IF loc.mkdir THEN fsDirs \cup {loc.projectDir} ELSE fsDirs
                  /\ hpc' = [hpc EXCEPT ![t] = "getq"]
                  /\ UNCHANGED sse
  /\ UNCHANGED <<env, ucall, now, disconnected, held, op, mutated, fsFiles, queueVars, hq, hprojects, workerVars,
                 ustate, nread, chan, closed, sessionCache, histVars>>

\* POST /api/chat: authMiddleware (401 and nothing else when the key is wrong:
\* the handler is at "unauthorized"); the request is decoded and sanitized (400
\* and nothing else when sanitizeMessage fails: the handler is at "rejected"),
\* the session located.
\* When os.MkdirAll of the locator fails, one error frame is written and the
\* handler returns (it is at "mkdirfailed").
ChatArrive(t) ==
  /\ hpc[t] = "new"
  /\ t <= env.turns
  /\ IF t = 1 THEN TRUE ELSE hpc[t - 1] # "new"
  /\ \E sid \in env.sids, p \in env.projects, m \in ChatMessages, k \in env.keys,
        made \in env.mkdir :
       LET r == [session_id |-> sid, project_name |-> p, message |-> m, key |-> k]
           loc == Locate(r, t)
       IN /\ req' = [req EXCEPT ![t] = r]
          /\ IF ~authMiddleware(k)
             THEN /\ hpc' = [hpc EXCEPT ![t] = "unauthorized"]
                  /\ UNCHANGED <<hsid, hdir, hexists, fsDirs, sse>>
             ELSE IF ~sanitizeMessage(m).ok
             THEN /\ hpc' = [hpc EXCEPT ![t] = "rejected"]
                  /\ UNCHANGED <<hsid, hdir, hexists, fsDirs, sse>>
             ELSE IF loc.mkdir /\ loc.projectDir \notin fsDirs /\ ~made
             THEN /\ hsid' = [hsid EXCEPT ![t] = loc.sessionID]
                  /\ hdir' = [hdir EXCEPT ![t] = loc.projectDir]
                  /\ sse' = [sse EXCEPT ![t] = <<SSEMessage(ErrorEvent("mkdir"))>>]
                  /\ hpc' = [hpc EXCEPT ![t] = "mkdirfailed"]
                  /\ UNCHANGED <<hexists, fsDirs>>
             ELSE /\ hsid' = [hsid EXCEPT ![t] = loc.sessionID]
                  /\ hdir' = [hdir EXCEPT ![t] = loc.projectDir]
                  /\ hexists' = [hexists EXCEPT ![t] = loc.sessionExists]
                  /\ fsDirs' = IF loc.mkdir THEN fsDirs \cup {loc.projectDir} ELSE fsDirs
                  /\ hpc' = [hpc EXCEPT ![t] = "getq"]
                  /\ UNCHANGED sse
  /\ UNCHANGED <<env, ucall, now, disconnected, held, op, mutated, fsFiles, queueVars, hq, hprojects, workerVars,
                 ustate, nread, chan, closed, sessionCache, histVars>>

\* queue := getOrCreateQueue(sessionID)
ChatGetQueue(t) ==
  /\ hpc[t] = "getq"
  /\ Locked(Handler(t))
  /\ LET r == getOrCreateQueue(hsid[t])
     IN /\ hq' = [hq EXCEPT ![t] = r.queue]
        /\ sessionQueues' = r.queues
        /\ nqueues' = r.n
  /\ hpc' = [hpc EXCEPT ![t] = "enqueue"]
  /\ held' = Unlock(held, Handler(t))
  /\ UNCHANGED <<env, ucall, now, disconnected, op, mutated, fsVars, qmessages, qprocessing, req, hsid, hdir, hexists, hprojects,
                 workerVars, chanVars,
                 sessionCache, histVars>>

\* queue.enqueue(queuedMessage{message, response: eventChan, ctx})
ChatEnqueue(t) ==
  /\ hpc[t] = "enqueue"
  /\ Locked(Handler(t))
  /\ qmessages' = [qmessages EXCEPT ![hq[t]] = enqueue(@, t)]
  /\ enqOrder' = Append(enqOrder, t)
  /\ hpc' = [hpc EXCEPT ![t] = "check"]
  /\ held' = Unlock(held, Handler(t))
  /\ UNCHANGED <<env, ucall, now, disconnected, op, mutated, fsVars, sessionQueues, qprocessing, nqueues, req, hsid, hdir, hexists, hq, hprojects,
                 workerVars, chanVars, sessionCache, closeOrder, closer, dequeuer, chanPanic>>

\* if !queue.isProcessing() { ... } else { ... }
ChatCheck(t) ==
  /\ hpc[t] = "check"
  /\ Locked(Handler(t))
  /\ hpc' = [hpc EXCEPT ![t] = IF ~isProcessing(hq[t]) THEN "start" ELSE "recv"]
  /\ held' = Unlock(held, Handler(t))
  /\ UNCHANGED <<env, ucall, now, disconnected, op, mutated, fsVars, queueVars, req, hsid, hdir, hexists, hq, hprojects, workerVars, chanVars,
                 sessionCache, histVars>>

\* queue.setProcessing(true); go processQueue(sessionID, projectDir, sessionExists)
ChatStart(t) ==
  /\ hpc[t] = "start"
  /\ Locked(Handler(t))
  /\ setProcessing(hq[t], TRUE)
  /\ wpc' = [wpc EXCEPT ![t] = "getq"]
  /\ hpc' = [hpc EXCEPT ![t] = "recv"]
  /\ held' = Unlock(held, Handler(t))
  /\ UNCHANGED <<env, ucall, now, disconnected, op, mutated, fsVars, sessionQueues, qmessages, nqueues, req, hsid, hdir, hexists, hq, hprojects, wq, wmsg,
                 chanVars, sessionCache, histVars>>

\* The fan-out loop leaving the channel alone once the client has disconnected.
ChatRecv_UntilDisconnect(t) ==
  /\ ~disconnected[t]
  /\ hpc[t] = "recv"
  /\ Len(chan[t]) > 0
  /\ sse' = [sse EXCEPT ![t] = Append(@, SSEMessage(Head(chan[t])))]
  /\ chan' = [chan EXCEPT ![t] = Tail(@)]
  /\ UNCHANGED <<env, ucall, now, disconnected, held, op, mutated, fsVars, queueVars, handlerVars, workerVars, ustate, nread, closed,
                 sessionCache, histVars>>

\* for event := range eventChan: one event is received and written as an SSE frame.
ChatRecv(t) ==
  /\ hpc[t] = "recv"
  /\ Len(chan[t]) > 0
  /\ sse' = [sse EXCEPT ![t] = Append(@, SSEMessage(Head(chan[t])))]
  /\ chan' = [chan EXCEPT ![t] = Tail(@)]
  /\ UNCHANGED <<env, ucall, now, disconnected, held, op, mutated, fsVars, queueVars, handlerVars, workerVars, ustate, nread, closed,
                 sessionCache, histVars>>

\* The project names the chat handler invalidates: project_name, or, without
\* it, every directory os.ReadDir lists under projects/.
ToInvalidate(r) ==
  IF r.project_name # NoProject THEN {r.project_name}
  ELSE {p \in Projects : ProjectsDir(p) \in fsDirs}

\* for event := range eventChan: the channel is closed and drained, the loop
\* ends; the handler determines the projects to invalidate.
ChatRecvEnd(t) ==
  /\ hpc[t] = "recv"
  /\ Len(chan[t]) = 0
  /\ closed[t]
  /\ hprojects' = [hprojects EXCEPT ![t] = ToInvalidate(req[t])]
  /\ hpc' = [hpc EXCEPT ![t] = "invalidate"]
  /\ UNCHANGED <<env, ucall, now, disconnected, held, op, mutated, fsVars, queueVars, req, hsid, hdir, hexists, hq, workerVars, chanVars,
                 sessionCache, histVars>>

\* The cache the chat handler leaves: invalidateSessionCache of each name.
ChatInvalidated(data, names) ==
  [p \in DOMAIN data |-> IF p \in names THEN invalidateSessionCache(data, p)[p] ELSE data[p]]

\* The projects the turn t touches: the one the request names, else the one
\* under projects/ that holds the session.
Touched(t) ==
  IF req[t].project_name # NoProject THEN {req[t].project_name}
  ELSE IF hdir[t].root = "projects" THEN {hdir[t].name}
  ELSE {}

\* invalidateSessionCache(*req.ProjectName), or of each directory name listed
ChatInvalidate(t) ==
  /\ hpc[t] = "invalidate"
  /\ Locked(Handler(t))
  /\ sessionCache' = ChatInvalidated(sessionCache, hprojects[t])
  /\ hpc' = [hpc EXCEPT ![t] = "done"]
  /\ mutated' = mutated \cup Touched(t)
  /\ held' = Unlock(held, Handler(t))
  /\ UNCHANGED <<env, ucall, now, disconnected, op, fsVars, queueVars, req, hsid, hdir, hexists, hq, hprojects, workerVars,
                 chanVars, histVars>>

\* ------------------------------------------------------------------ worker
\* The lines the upstream may send as the i-th line of its response to the call
\* made for the turn m: a line of the scenario that is bound to no position
\* (at = 0) or to this one, and to no call (call = 0) or to this one.
UpstreamLines(m, i) ==
  {line \in env.lines : (line.at = 0 \/ line.at = i) /\ (line.call = 0 \/ line.call = m)}

\* A send that drops the event when the buffer is full instead of blocking.
Send_DropWhenFull(m, events) ==
  IF closed[m] /\ Len(events) > 0
  THEN /\ chanPanic' = TRUE
       /\ chan' = chan
  ELSE /\ chanPanic' = chanPanic
       /\ chan' = IF Len(chan[m]) + Len(events) <= ChanCap
                  THEN [chan EXCEPT ![m] = @ \o events] ELSE chan

\* eventChan <- e by the worker w for the turn m (blocks while the buffer is full).
Send(m, events) ==
  /\ Len(chan[m]) + Len(events) <= ChanCap
  /\ IF closed[m] /\ Len(events) > 0
     THEN /\ chanPanic' = TRUE
          /\ chan' = chan
     ELSE /\ chanPanic' = chanPanic
          /\ chan' = [chan EXCEPT ![m] = @ \o events]

\* processQueue: queue := getOrCreateQueue(sessionID)
WorkerGetQueue(w) ==
  /\ wpc[w] = "getq"
  /\ Locked(Worker(w))
  /\ LET r == getOrCreateQueue(hsid[w])
     IN /\ wq' = [wq EXCEPT ![w] = r.queue]
        /\ sessionQueues' = r.queues
        /\ nqueues' = r.n
  /\ wpc' = [wpc EXCEPT ![w] = "dequeue"]
  /\ held' = Unlock(held, Worker(w))
  /\ UNCHANGED <<env, ucall, now, disconnected, op, mutated, fsVars, qmessages, qprocessing, handlerVars, wmsg, chanVars,
                 sessionCache, histVars>>

\* processQueue: msg, hasMore := queue.dequeue()
WorkerDequeue(w) ==
  /\ wpc[w] = "dequeue"
  /\ Locked(Worker(w))
  /\ LET r == dequeue(qmessages[wq[w]])
     IN IF r.ok
        THEN /\ qmessages' = [qmessages EXCEPT ![wq[w]] = r.messages]
             /\ wmsg' = [wmsg EXCEPT ![w] = r.msg]
             /\ dequeuer' = [dequeuer EXCEPT ![r.msg] = @ \cup {w}]
             /\ wpc' = [wpc EXCEPT ![w] = "exec"]
        ELSE /\ wpc' = [wpc EXCEPT ![w] = "clear"]
             /\ UNCHANGED <<qmessages, wmsg, dequeuer>>
  /\ held' = Unlock(held, Worker(w))
  /\ UNCHANGED <<env, ucall, now, disconnected, op, mutated, fsVars, sessionQueues, qprocessing, nqueues, handlerVars, wq, chanVars,
                 sessionCache, enqOrder, closeOrder, closer, chanPanic>>

\* processQueue: queue.setProcessing(false); return
WorkerClear(w) ==
  /\ wpc[w] = "clear"
  /\ Locked(Worker(w))
  /\ setProcessing(wq[w], FALSE)
  /\ wpc' = [wpc EXCEPT ![w] = "exit"]
  /\ held' = Unlock(held, Worker(w))
  /\ UNCHANGED <<env, ucall, now, disconnected, op, mutated, fsVars, sessionQueues, qmessages, nqueues, handlerVars, wq, wmsg,
                 chanVars, sessionCache, histVars>>

\* filepath.Base(dir): the last element of the path of a directory
Base(dir) == IF dir = BaseDir THEN ".claude" ELSE dir.name
\* The projectDir of the turn t instead of the one processQueue was started with.
ProxyDir_OfTurn(w, t) == hdir[t]
\* The projectDir parameter of the processQueue the handler of turn w started,
\* while it proxies the turn t.
ProxyDir(w, t) == hdir[w]
\* processQueue, for the turn in msg: os.Stat(sessionFile) in projectDir, and the
\* arguments of executeClaudeCLI with the project_id of its payload.
Call(w) ==
  [sessionID |-> hsid[w], projectDir |-> ProxyDir(w, wmsg[w]),
   sessionExists |-> FileExists(ProxyDir(w, wmsg[w]), hsid[w]),
   project_id |-> Base(ProxyDir(w, wmsg[w])), called |-> TRUE,
   calls |-> ucall[wmsg[w]].calls + 1]

\* processQueue: os.Stat(sessionFile), then executeClaudeCLI up to the response
\* status: a failure sends one error event and returns, else the stream is read.
WorkerExec(w) ==
  /\ wpc[w] = "exec"
  /\ ucall' = [ucall EXCEPT ![wmsg[w]] = Call(w)]
  /\ \/ \E f \in env.failures :
          /\ Send(wmsg[w], <<ErrorEvent(f)>>)
          /\ ustate' = [ustate EXCEPT ![wmsg[w]] = "failed"]
          /\ wpc' = [wpc EXCEPT ![w] = "close"]
     \/ /\ ustate' = [ustate EXCEPT ![wmsg[w]] = "open"]
        /\ wpc' = [wpc EXCEPT ![w] = "stream"]
        /\ UNCHANGED <<chan, chanPanic>>
  /\ UNCHANGED <<env, now, disconnected, held, op, mutated, fsVars, queueVars, handlerVars, wq, wmsg, nread, closed, sse,
                 sessionCache, enqOrder, closeOrder, closer, dequeuer>>

\* WorkerReadLine returning from executeClaudeCLI as soon as a done event is sent.
WorkerReadLine_ReturnOnDone(w) ==
  /\ wpc[w] = "stream"
  /\ nread[wmsg[w]] < env.frames
  /\ \E line \in UpstreamLines(wmsg[w], nread[wmsg[w]] + 1) :
       /\ Send(wmsg[w], MapLine(line, hsid[w]))
       /\ wpc' = [wpc EXCEPT ![w] =
                    IF line.kind = "data" /\ line.type = "done" THEN "close" ELSE @]
  /\ nread' = [nread EXCEPT ![wmsg[w]] = @ + 1]
  /\ UNCHANGED <<env, ucall, now, disconnected, held, op, mutated, fsVars, queueVars, handlerVars, wq, wmsg, ustate, closed, sse,
                 sessionCache, enqOrder, closeOrder, closer, dequeuer>>

\* WorkerReadLine sending on the channel of the turn whose handler started the
\* worker instead of the channel of the dequeued message.
WorkerReadLine_LaunchersChannel(w) ==
  /\ wpc[w] = "stream"
  /\ nread[wmsg[w]] < env.frames
  /\ \E line \in UpstreamLines(wmsg[w], nread[wmsg[w]] + 1) : Send(w, MapLine(line, hsid[w]))
  /\ nread' = [nread EXCEPT ![wmsg[w]] = @ + 1]
  /\ UNCHANGED <<env, ucall, now, disconnected, held, op, mutated, fsVars, queueVars, handlerVars, workerVars, ustate, closed, sse,
                 sessionCache, enqOrder, closeOrder, closer, dequeuer>>

\* executeClaudeCLI: one reader.ReadString of the stream loop returns a line.
WorkerReadLine(w) ==
  /\ wpc[w] = "stream"
  /\ nread[wmsg[w]] < env.frames
  /\ \E line \in UpstreamLines(wmsg[w], nread[wmsg[w]] + 1) : Send(wmsg[w], MapLine(line, hsid[w]))
  /\ nread' = [nread EXCEPT ![wmsg[w]] = @ + 1]
  /\ UNCHANGED <<env, ucall, now, disconnected, held, op, mutated, fsVars, queueVars, handlerVars, workerVars, ustate, closed, sse,
                 sessionCache, enqOrder, closeOrder, closer, dequeuer>>

\* executeClaudeCLI: reader.ReadString returns io.EOF (eof) or another error
\* (err): the loop breaks and the function returns.
WorkerReadEnd(w) ==
  /\ wpc[w] = "stream"
  /\ \E end \in {"eof", "err"} : ustate' = [ustate EXCEPT ![wmsg[w]] = end]
  /\ wpc' = [wpc EXCEPT ![w] = "close"]
  /\ UNCHANGED <<env, ucall, now, disconnected, held, op, mutated, fsVars, queueVars, handlerVars, wq, wmsg, nread, chan, closed, sse,
                 sessionCache, histVars>>

\* executeClaudeCLI: defer close(eventChan); processQueue loops.
WorkerClose(w) ==
  /\ wpc[w] = "close"
  /\ IF closed[wmsg[w]]
     THEN /\ chanPanic' = TRUE
          /\ UNCHANGED closed
     ELSE /\ closed' = [closed EXCEPT ![wmsg[w]] = TRUE]
          /\ UNCHANGED chanPanic
  /\ closeOrder' = Append(closeOrder, wmsg[w])
  /\ closer' = [closer EXCEPT ![wmsg[w]] = w]
  /\ wmsg' = [wmsg EXCEPT ![w] = 0]
  /\ wpc' = [wpc EXCEPT ![w] = "dequeue"]
  /\ UNCHANGED <<env, ucall, now, disconnected, held, op, mutated, fsVars, queueVars, handlerVars, wq, ustate, nread, chan, sse,
                 sessionCache, enqOrder, dequeuer>>

\* One step of the chat handler of the turn t.
HandlerStep(t) ==
  \/ ChatArrive(t)
  \/ ChatGetQueue(t)
  \/ ChatEnqueue(t)
  \/ ChatCheck(t)
  \/ ChatStart(t)
  \/ ChatRecv(t)
  \/ ChatRecvEnd(t)
  \/ ChatInvalidate(t)

\* One step of the worker the handler of the turn w launched.
WorkerStep(w) ==
  \/ WorkerGetQueue(w)
  \/ WorkerDequeue(w)
  \/ WorkerClear(w)
  \/ WorkerExec(w)
  \/ WorkerReadLine(w)
  \/ WorkerReadEnd(w)
  \/ WorkerClose(w)

ChatNext == \E t \in Turns : HandlerStep(t) \/ WorkerStep(t)

Next == ChatNext

Spec == Init /\ [][Next]_vars

\* One turn followed through the proxy: the upstream may fail in every way and
\* send every kind of line.
InitProxy ==
  /\ InitChat
  /\ env = [turns |-> 1, sids |-> {1}, projects |-> {NoProject},
            frames |-> MaxFrames, lines |-> Lines, failures |-> PreStreamFailures,
            ops |-> 0, locks |-> FALSE, invalid |-> FALSE,
            traversal |-> FALSE, apikey |-> NoKey, keys |-> {NoKey},
            names |-> Projects,
            mkdir |-> {TRUE}]
  /\ fsDirs = {BaseDir} \cup {ProjectsDir(p) : p \in Projects}
  /\ fsFiles = {SessionFile(ProjectsDir("p1"), 1, 1)}
  /\ sessionCache = [p \in Projects |-> NoEntry]

SpecProxy == InitProxy /\ [][Next]_vars

\* ------------------------------------------------------------------ lifecycle handlers
\* A lifecycle request arrives: requests arrive in the order of their numbers.
Arrives(o) ==
  /\ o <= env.ops
  /\ op[o].pc = "idle"
  /\ IF o = 1 THEN TRUE ELSE op[o - 1].pc # "idle"

\* The handler o is at the position pc.
At(o, kind, pc) == op[o].kind = kind /\ op[o].pc = pc

\* The handler o answers with an HTTP status.
Answer(o, status) == op' = [op EXCEPT ![o].pc = "done", ![o].status = status]
Goto(o, pc) == op' = [op EXCEPT ![o].pc = pc]

\* GET /api/projects/{projectName}/sessions: getCachedSessions; a hit is answered.
ListGet(o) ==
  /\ Arrives(o)
  /\ env.locks => (op[o].kind = "list" /\ Locked(OpHandler(o)))
  /\ \E p \in Projects :
       LET c == getCachedSessions(p)
       IN /\ op[o].kind = "list" => p = op[o].project
          /\ op' = [op EXCEPT ![o] =
                      [NoOp EXCEPT !.kind = "list", !.project = p,
                                   !.sessions = c.sessions,
                                   !.hit = c.found, !.age = Age(p),
                                   !.pc = IF c.found THEN "done" ELSE "scan",
                                   !.status = IF c.found THEN 200 ELSE 0]]
          /\ mutated' = mutated \ {p}
  /\ held' = Unlock(held, OpHandler(o))
  /\ UNCHANGED <<env, ucall, now, disconnected, fsVars, chatVars, sessionCache>>

\* List sessions, cache miss: os.ReadDir(projectPath) and the *.jsonl entries.
ListScan(o) ==
  /\ At(o, "list", "scan")
  /\ IF ProjectsDir(op[o].project) \in fsDirs
     THEN op' = [op EXCEPT ![o].pc = "put",
                           ![o].sessions = Sorted(SessionsIn(ProjectsDir(op[o].project)))]
     ELSE Answer(o, 500)
  /\ UNCHANGED <<env, ucall, now, disconnected, held, fsVars, chatVars, sessionCache, mutated>>

\* List sessions, cache miss: updateSessionCache(projectName, sessions), answer.
ListPut(o) ==
  /\ At(o, "list", "put")
  /\ Locked(OpHandler(o))
  /\ sessionCache' = updateSessionCache(sessionCache, op[o].project, op[o].sessions)
  /\ Answer(o, 200)
  /\ held' = Unlock(held, OpHandler(o))
  /\ UNCHANGED <<env, ucall, now, disconnected, fsVars, chatVars, mutated>>

\* DELETE /api/projects/{projectName}/sessions/{sessionID} (the route is
\* registered with corsMiddleware only): validatePath (else 400), then
\* validateFileOperation(sessionFile, "delete"), which stats the file.
DeleteValidate(o) ==
  /\ Arrives(o)
  /\ op[o].kind = "none"
  /\ \E p \in DeleteSessionProjects, id \in ClientIds, k \in env.keys :
       op' = [op EXCEPT ![o] =
                IF ~validatePath(ProjectsDir(p), ProjectsRoot)
                THEN [NoOp EXCEPT !.kind = "delete", !.project = p, !.id = id, !.key = k,
                                  !.pc = "done", !.status = 400]
                ELSE
                [NoOp EXCEPT !.kind = "delete", !.project = p, !.id = id, !.key = k,
                             !.present = FileExists(ProjectsDir(p), id),
                             !.pc = IF FileExists(ProjectsDir(p), id) THEN "stat" ELSE "done",
                             !.status = IF FileExists(ProjectsDir(p), id) THEN 0 ELSE 400]]
  /\ UNCHANGED <<env, ucall, now, disconnected, held, fsVars, chatVars, sessionCache, mutated>>

\* Delete session: os.Stat(sessionFile), 404 when os.IsNotExist.
DeleteStat(o) ==
  /\ At(o, "delete", "stat")
  /\ IF FileExists(ProjectsDir(op[o].project), op[o].id)
     THEN Goto(o, "remove")
     ELSE Answer(o, 404)
  /\ UNCHANGED <<env, ucall, now, disconnected, held, fsVars, chatVars, sessionCache, mutated>>

\* Delete session: os.Remove(sessionFile), 500 when it fails.
DeleteRemove(o) ==
  /\ At(o, "delete", "remove")
  /\ IF FileExists(ProjectsDir(op[o].project), op[o].id)
     THEN /\ fsFiles' = Remove(fsFiles, ProjectsDir(op[o].project), op[o].id)
          /\ Goto(o, "invalidate")
     ELSE /\ Answer(o, 500)
          /\ UNCHANGED fsFiles
  /\ UNCHANGED <<env, ucall, now, disconnected, held, fsDirs, chatVars, sessionCache, mutated>>

\* Delete session: invalidateSessionCache(projectName), answer success.
DeleteInvalidate(o) ==
  /\ At(o, "delete", "invalidate")
  /\ Locked(OpHandler(o))
  /\ sessionCache' = invalidateSessionCache(sessionCache, op[o].project)
  /\ Answer(o, 200)
  /\ mutated' = mutated \cup {op[o].project}
  /\ held' = Unlock(held, OpHandler(o))
  /\ UNCHANGED <<env, ucall, now, disconnected, fsVars, chatVars>>

\* POST /api/fork-session: authMiddleware (else 401); both ids are UUIDs, the
\* project name is not empty (else 400);
\* validateFileOperation(sourcePath, "read") stats the source.
ForkValidate(o) ==
  /\ Arrives(o)
  /\ op[o].kind = "none"
  /\ \E p \in ForkProjects, src \in ForkIds, dst \in ForkIds, k \in env.keys :
       op' = [op EXCEPT ![o] =
                IF ~authMiddleware(k)
                THEN [NoOp EXCEPT !.kind = "fork", !.project = p, !.id = src, !.target = dst,
                                  !.key = k, !.pc = "done", !.status = 401]
                ELSE IF ~isValidUUID(src) \/ ~isValidUUID(dst) \/ p = NoProject
                THEN [NoOp EXCEPT !.kind = "fork", !.project = p, !.id = src, !.target = dst,
                                  !.key = k, !.pc = "done", !.status = 400]
                ELSE
                [NoOp EXCEPT !.kind = "fork", !.project = p, !.id = src, !.target = dst,
                             !.key = k,
                             !.present = FileExists(ProjectsDir(p), dst),
                             !.pc = IF FileExists(ProjectsDir(p), src) THEN "stat" ELSE "done",
                             !.status = IF FileExists(ProjectsDir(p), src) THEN 0 ELSE 404]]
  /\ UNCHANGED <<env, ucall, now, disconnected, held, fsVars, chatVars, sessionCache, mutated>>

\* Fork without the os.Stat(forkPath) check: an existing fork is overwritten.
ForkStat_NoCheck(o) ==
  /\ At(o, "fork", "stat")
  /\ Goto(o, "read")
  /\ UNCHANGED <<env, ucall, now, disconnected, held, fsVars, chatVars, sessionCache, mutated>>

\* Fork: os.Stat(forkPath), 409 when the fork exists.
ForkStat(o) ==
  /\ At(o, "fork", "stat")
  /\ IF FileExists(ProjectsDir(op[o].project), op[o].target)
     THEN Answer(o, 409)
     ELSE Goto(o, "read")
  /\ UNCHANGED <<env, ucall, now, disconnected, held, fsVars, chatVars, sessionCache, mutated>>

\* Fork: os.ReadFile(sourcePath), 500 when it fails.
ForkRead(o) ==
  /\ At(o, "fork", "read")
  /\ IF FileExists(ProjectsDir(op[o].project), op[o].id)
     THEN op' = [op EXCEPT ![o].pc = "mkdir",
                           ![o].data = ReadFile(ProjectsDir(op[o].project), op[o].id)]
     ELSE Answer(o, 500)
  /\ UNCHANGED <<env, ucall, now, disconnected, held, fsVars, chatVars, sessionCache, mutated>>

\* Fork: os.MkdirAll(projectDir)
ForkMkdir(o) ==
  /\ At(o, "fork", "mkdir")
  /\ fsDirs' = fsDirs \cup {ProjectsDir(op[o].project)}
  /\ Goto(o, "write")
  /\ UNCHANGED <<env, ucall, now, disconnected, held, fsFiles, chatVars, sessionCache, mutated>>

\* Fork: os.WriteFile(forkPath, data), 500 when it fails.
ForkWrite(o) ==
  /\ At(o, "fork", "write")
  /\ IF ProjectsDir(op[o].project) \in fsDirs
     THEN /\ fsFiles' = WriteFile(fsFiles, ProjectsDir(op[o].project), op[o].target,
                                   op[o].data)
          /\ Goto(o, "invalidate")
     ELSE /\ Answer(o, 500)
          /\ UNCHANGED fsFiles
  /\ UNCHANGED <<env, ucall, now, disconnected, held, fsDirs, chatVars, sessionCache, mutated>>

\* Fork: invalidateSessionCache(req.ProjectName), answer success.
ForkInvalidate(o) ==
  /\ At(o, "fork", "invalidate")
  /\ Locked(OpHandler(o))
  /\ sessionCache' = invalidateSessionCache(sessionCache, op[o].project)
  /\ Answer(o, 200)
  /\ mutated' = mutated \cup {op[o].project}
  /\ held' = Unlock(held, OpHandler(o))
  /\ UNCHANGED <<env, ucall, now, disconnected, fsVars, chatVars>>

\* strings.Split(name, "-") of the project names sanitizeProjectName accepts.
NameParts ==
  [p1 |-> <<"p1">>, max |-> <<"max">>, app |-> <<"app">>, diego |-> <<"diego">>]
  @@ ("my-app" :> <<"my", "app">>)
  @@ ("-Users-2a-diego" :> <<"", "Users", "2a", "diego">>)
  @@ ("-Users-a-" :> <<"", "Users", "a", "">>)
\* strings.HasPrefix(name, "-Users-")
HasUsersPrefix(p) ==
  Len(NameParts[p]) >= 3 /\ NameParts[p][1] = "" /\ NameParts[p][2] = "Users"
\* The last "-"-separated part of every name, whatever its prefix.
SimpleName_LastPartAlways(p) == NameParts[p][Len(NameParts[p])]
\* The "simple" name of delete project: the last "-"-separated part of a name
\* that starts with "-Users-", else the name itself.
SimpleName(p) == IF HasUsersPrefix(p) THEN NameParts[p][Len(NameParts[p])] ELSE p

\* os.RemoveAll(dir): the directory and the files in it are gone.
RemoveAll(dir) ==
  /\ fsDirs' = fsDirs \ {dir}
  /\ fsFiles' = {f \in fsFiles : f.dir # dir}

\* Delete project answering 404 when the directory under projects/ is absent.
DeleteProjectProjects_NotFound(o) ==
  /\ Arrives(o)
  /\ op[o].kind = "none"
  /\ \E p \in DeleteNames, k \in env.keys :
       IF ~authMiddleware(k)
       THEN /\ op' = [op EXCEPT ![o] = [NoOp EXCEPT !.kind = "delproject", !.project = p,
                                                     !.key = k, !.pc = "done", !.status = 401]]
            /\ UNCHANGED fsVars
       ELSE IF ~sanitizeProjectName(p).ok
       THEN /\ op' = [op EXCEPT ![o] = [NoOp EXCEPT !.kind = "delproject", !.project = p,
                                                     !.key = k, !.pc = "done", !.status = 400]]
            /\ UNCHANGED fsVars
       ELSE IF ~sanitizeProjectName(SimpleName(p)).ok
       THEN /\ op' = [op EXCEPT ![o] = [NoOp EXCEPT !.kind = "delproject", !.project = p,
                                                     !.key = k, !.pc = "done", !.status = 400]]
            /\ UNCHANGED fsVars
       ELSE IF ~validatePath(ProjectsDir(p), ProjectsRoot)
       THEN /\ op' = [op EXCEPT ![o] = [NoOp EXCEPT !.kind = "delproject", !.project = p,
                                                     !.key = k, !.pc = "done", !.status = 403]]
            /\ UNCHANGED fsVars
       ELSE IF ProjectsDir(p) \notin fsDirs
       THEN /\ op' = [op EXCEPT ![o] = [NoOp EXCEPT !.kind = "delproject", !.project = p,
                                                     !.key = k, !.pc = "done", !.status = 404]]
            /\ UNCHANGED fsVars
       ELSE /\ op' = [op EXCEPT ![o] = [NoOp EXCEPT !.kind = "delproject", !.project = p,
                                                     !.key = k, !.pc = "projetos",
                                                     !.present = ProjectsDir(p) \in fsDirs]]
            /\ RemoveAll(ProjectsDir(p))
  /\ UNCHANGED <<env, ucall, now, disconnected, held, chatVars, sessionCache, mutated>>

\* DELETE /api/projects/{projectName}: authMiddleware (else 401); the name and
\* the simple name derived from it are sanitized (else 400), the path under
\* projects/ is validated (else 403); os.RemoveAll(projectsPath), an error is
\* only logged.
DeleteProjectProjects(o) ==
  /\ Arrives(o)
  /\ op[o].kind = "none"
  /\ \E p \in DeleteNames, k \in env.keys :
       IF ~authMiddleware(k)
       THEN /\ op' = [op EXCEPT ![o] = [NoOp EXCEPT !.kind = "delproject", !.project = p,
                                                     !.key = k, !.pc = "done", !.status = 401]]
            /\ UNCHANGED fsVars
       ELSE IF ~sanitizeProjectName(p).ok
       THEN /\ op' = [op EXCEPT ![o] = [NoOp EXCEPT !.kind = "delproject", !.project = p,
                                                     !.key = k, !.pc = "done", !.status = 400]]
            /\ UNCHANGED fsVars
       ELSE IF ~sanitizeProjectName(SimpleName(p)).ok
       THEN /\ op' = [op EXCEPT ![o] = [NoOp EXCEPT !.kind = "delproject", !.project = p,
                                                     !.key = k, !.pc = "done", !.status = 400]]
            /\ UNCHANGED fsVars
       ELSE IF ~validatePath(ProjectsDir(p), ProjectsRoot)
       THEN /\ op' = [op EXCEPT ![o] = [NoOp EXCEPT !.kind = "delproject", !.project = p,
                                                     !.key = k, !.pc = "done", !.status = 403]]
            /\ UNCHANGED fsVars
       ELSE /\ op' = [op EXCEPT ![o] = [NoOp EXCEPT !.kind = "delproject", !.project = p,
                                                     !.key = k, !.pc = "projetos",
                                                     !.present = ProjectsDir(p) \in fsDirs]]
            /\ RemoveAll(ProjectsDir(p))
  /\ UNCHANGED <<env, ucall, now, disconnected, held, chatVars, sessionCache, mutated>>

\* Delete project: validatePath(simplePath) (else 403), os.RemoveAll(simplePath),
\* an error is only logged.
DeleteProjectProjetos(o) ==
  /\ At(o, "delproject", "projetos")
  /\ IF ~validatePath(ProjetosDir(SimpleName(op[o].project)), ProjetosRoot)
     THEN /\ Answer(o, 403)
          /\ UNCHANGED fsVars
     ELSE /\ RemoveAll(ProjetosDir(SimpleName(op[o].project)))
          /\ Goto(o, "invalidate")
  /\ UNCHANGED <<env, ucall, now, disconnected, held, chatVars, sessionCache, mutated>>

\* Delete project: invalidateSessionCache(sanitized), answer success.
DeleteProjectInvalidate(o) ==
  /\ At(o, "delproject", "invalidate")
  /\ Locked(OpHandler(o))
  /\ sessionCache' = invalidateSessionCache(sessionCache, op[o].project)
  /\ Answer(o, 200)
  /\ mutated' = mutated \cup {op[o].project}
  /\ held' = Unlock(held, OpHandler(o))
  /\ UNCHANGED <<env, ucall, now, disconnected, fsVars, chatVars>>

\* One step of the lifecycle handler o.
OpStep(o) ==
  \/ ListGet(o)
  \/ ListScan(o)
  \/ ListPut(o)
  \/ DeleteValidate(o)
  \/ DeleteStat(o)
  \/ DeleteRemove(o)
  \/ DeleteInvalidate(o)
  \/ ForkValidate(o)
  \/ ForkStat(o)
  \/ ForkRead(o)
  \/ ForkMkdir(o)
  \/ ForkWrite(o)
  \/ ForkInvalidate(o)
  \/ DeleteProjectProjects(o)
  \/ DeleteProjectProjetos(o)
  \/ DeleteProjectInvalidate(o)

LifecycleNext == \E o \in Ops : OpStep(o)

\* Lifecycle requests on project p1 beside one chat turn that names p1.
InitCache ==
  /\ InitChat
  /\ env = [turns |-> 1, sids |-> {1}, projects |-> Projects,
            frames |-> CoordFrames, lines |-> {DataLine("done", NoField, NoField, NoField)},
            failures |-> {"connect"}, ops |-> MaxOps, locks |-> FALSE, invalid |-> FALSE,
            traversal |-> FALSE, apikey |-> NoKey, keys |-> {NoKey},
            names |-> Projects,
            mkdir |-> {TRUE}]
  /\ fsDirs = {BaseDir} \cup {ProjectsDir(p) : p \in Projects}
  /\ fsFiles = {SessionFile(ProjectsDir("p1"), 1, 1)}
  /\ sessionCache = [p \in Projects |-> NoEntry]

NextCache == ChatNext \/ LifecycleNext

SpecCache == InitCache /\ [][NextCache]_vars

\* ------------------------------------------------------------------ locking
\* GET /api/projects/{projectName}/sessions is called; getCachedSessions comes next.
ListCall(o) ==
  /\ env.locks
  /\ Arrives(o)
  /\ op[o].kind = "none"
  /\ \E p \in Projects : op' = [op EXCEPT ![o].kind = "list", ![o].project = p]
  /\ UNCHANGED <<env, ucall, now, disconnected, held, fsVars, chatVars, sessionCache, mutated>>

\* A chat turn on a named project beside lifecycle requests, every Lock
\* followed as a step.
InitLocks ==
  /\ InitChat
  /\ env = [turns |-> 1, sids |-> {1}, projects |-> Projects,
            frames |-> CoordFrames, lines |-> {DataLine("done", NoField, NoField, NoField)},
            failures |-> {"connect"}, ops |-> LockOps, locks |-> TRUE, invalid |-> FALSE,
            traversal |-> FALSE, apikey |-> NoKey, keys |-> {NoKey},
            names |-> Projects,
            mkdir |-> {TRUE}]
  /\ fsDirs = {BaseDir} \cup {ProjectsDir(p) : p \in Projects}
  /\ fsFiles = {SessionFile(ProjectsDir("p1"), 1, 1)}
  /\ sessionCache = [p \in Projects |-> NoEntry]

NextLocks ==
  \/ \E th \in Threads : Lock(th)
  \/ \E o \in Ops : ListCall(o)
  \/ ChatNext
  \/ LifecycleNext

SpecLocks == InitLocks /\ [][NextLocks]_vars

\* Chat turns on one session and a named project, every Lock followed as a step.
InitQueueLocks ==
  /\ InitChat
  /\ env = [turns |-> MaxTurns, sids |-> {1}, projects |-> Projects,
            frames |-> CoordFrames, lines |-> {DataLine("done", NoField, NoField, NoField)},
            failures |-> {"connect"}, ops |-> 0, locks |-> TRUE, invalid |-> FALSE,
            traversal |-> FALSE, apikey |-> NoKey, keys |-> {NoKey},
            names |-> Projects,
            mkdir |-> {TRUE}]
  /\ fsDirs = {BaseDir} \cup {ProjectsDir(p) : p \in Projects}
  /\ fsFiles = {SessionFile(ProjectsDir("p1"), 1, 1)}
  /\ sessionCache = [p \in Projects |-> NoEntry]

NextQueueLocks ==
  \/ \E th \in Threads : Lock(th)
  \/ ChatNext

SpecQueueLocks == InitQueueLocks /\ [][NextQueueLocks]_vars

\* ------------------------------------------------------------------ client disconnect
\* The client of the turn t closes its connection while the request is being
\* served. The handler does not read r.Context() and writes with fmt.Fprintf,
\* whose error it drops; the turn carries ctx := context.Background(), which no
\* disconnect cancels: no step of a handler or a worker depends on this.
ClientDisconnect(t) ==
  /\ hpc[t] \notin {"new", "done"}
  /\ ~disconnected[t]
  /\ disconnected' = [disconnected EXCEPT ![t] = TRUE]
  /\ UNCHANGED <<env, ucall, now, held, fsVars, chatVars, sessionCache, op, mutated>>

\* Chat turns on one session whose clients may disconnect.
InitCancel ==
  /\ InitChat
  /\ env = [turns |-> MaxTurns, sids |-> {1}, projects |-> {NoProject},
            frames |-> CoordFrames, lines |-> {DataLine("done", NoField, NoField, NoField)},
            failures |-> {"connect"}, ops |-> 0, locks |-> FALSE, invalid |-> FALSE,
            traversal |-> FALSE, apikey |-> NoKey, keys |-> {NoKey},
            names |-> Projects,
            mkdir |-> {TRUE}]
  /\ fsDirs = {BaseDir} \cup {ProjectsDir(p) : p \in Projects}
  /\ fsFiles = {SessionFile(ProjectsDir("p1"), 1, 1)}
  /\ sessionCache = [p \in Projects |-> NoEntry]

NextCancel ==
  \/ ChatNext
  \/ \E t \in Turns : ClientDisconnect(t)

\* The steps of a worker that do not wait for the upstream: the scheduler runs
\* them. Reading a line and the end of the stream wait for the upstream, which
\* may stay silent for ever.
WorkerRuns(w) ==
  \/ WorkerGetQueue(w)
  \/ WorkerDequeue(w)
  \/ WorkerClear(w)
  \/ WorkerExec(w)
  \/ WorkerClose(w)

\* Goroutines that can run do run.
Fairness ==
  \A t \in Turns : WF_vars(HandlerStep(t)) /\ WF_vars(WorkerRuns(t))

SpecCancel == InitCancel /\ [][NextCancel]_vars /\ Fairness

\* ------------------------------------------------------------------ fork races
\* Lifecycle requests on project p1, which holds the sessions 1 and 2.
InitFork ==
  /\ InitChat
  /\ env = [turns |-> 0, sids |-> {1}, projects |-> Projects,
            frames |-> CoordFrames, lines |-> {DataLine("done", NoField, NoField, NoField)},
            failures |-> {"connect"}, ops |-> ForkOps, locks |-> FALSE, invalid |-> FALSE,
            traversal |-> FALSE, apikey |-> NoKey, keys |-> {NoKey},
            names |-> Projects,
            mkdir |-> {TRUE}]
  /\ fsDirs = {BaseDir} \cup {ProjectsDir(p) : p \in Projects}
  /\ fsFiles = {SessionFile(ProjectsDir("p1"), id, id) : id \in ClientIds}
  /\ sessionCache = [p \in Projects |-> NoEntry]

SpecFork == InitFork /\ [][LifecycleNext]_vars

\* ------------------------------------------------------------------ invalid requests
\* A chat turn and lifecycle requests on project p1 by clients that also send
\* messages, ids and names validation rejects.
InitInvalid ==
  /\ InitChat
  /\ env = [turns |-> 1, sids |-> {1}, projects |-> Projects,
            frames |-> CoordFrames, lines |-> {DataLine("done", NoField, NoField, NoField)},
            failures |-> {"connect"}, ops |-> MaxOps, locks |-> FALSE, invalid |-> TRUE,
            traversal |-> FALSE, apikey |-> NoKey, keys |-> {NoKey},
            names |-> Projects \cup {"bar", "space", "long", DotDot},
            mkdir |-> {TRUE}]
  /\ fsDirs = {BaseDir} \cup {ProjectsDir(p) : p \in Projects}
  /\ fsFiles = {SessionFile(ProjectsDir("p1"), 1, 1)}
  /\ sessionCache = [p \in Projects |-> NoEntry]

SpecInvalid == InitInvalid /\ [][NextCache]_vars

\* ------------------------------------------------------------------ API key
\* A chat turn and lifecycle requests on project p1, on a server started with
\* API_KEY set, by clients that send the key or another one.
InitAuth ==
  /\ InitChat
  /\ env = [turns |-> 1, sids |-> {1}, projects |-> Projects,
            frames |-> CoordFrames, lines |-> {DataLine("done", NoField, NoField, NoField)},
            failures |-> {"connect"}, ops |-> MaxOps, locks |-> FALSE, invalid |-> FALSE,
            traversal |-> FALSE, apikey |-> ApiKey, keys |-> {ApiKey, WrongKey},
            names |-> Projects,
            mkdir |-> {TRUE}]
  /\ fsDirs = {BaseDir} \cup {ProjectsDir(p) : p \in Projects}
  /\ fsFiles = {SessionFile(ProjectsDir("p1"), 1, 1)}
  /\ sessionCache = [p \in Projects |-> NoEntry]

SpecAuth == InitAuth /\ [][NextCache]_vars

\* ------------------------------------------------------------------ no session id
\* Chat turns that name no session and no project, on a base directory that
\* holds no session file, one, or two.
InitNoId ==
  /\ InitChat
  /\ env = [turns |-> MaxTurns, sids |-> {NoSession}, projects |-> {NoProject},
            frames |-> CoordFrames,
            lines |-> {DataLine("text", "c", NoField, NoField), DataLine("done", NoField, NoField, NoField)},
            failures |-> {"connect"}, ops |-> 0, locks |-> FALSE, invalid |-> FALSE,
            traversal |-> FALSE, apikey |-> NoKey, keys |-> {NoKey},
            names |-> Projects,
            mkdir |-> {TRUE}]
  /\ fsDirs = {BaseDir} \cup {ProjectsDir(p) : p \in Projects}
  /\ \E base \in {{}, {2}, {1, 2}} :
       fsFiles = {SessionFile(ProjectsDir("p1"), 1, 1)}
                 \cup {SessionFile(BaseDir, id, id) : id \in base}
  /\ sessionCache = [p \in Projects |-> NoEntry]

SpecNoId == InitNoId /\ [][Next]_vars

\* ------------------------------------------------------------------ fan-out
\* One turn whose upstream streams numbered text frames, more than the channel
\* buffers, and ends the stream at any point.
InitFanout ==
  /\ InitChat
  /\ env = [turns |-> 1, sids |-> {1}, projects |-> {NoProject},
            frames |-> FanoutFrames,
            lines |-> {StreamLine(i) : i \in 1..FanoutFrames},
            failures |-> {"connect"}, ops |-> 0, locks |-> FALSE, invalid |-> FALSE,
            traversal |-> FALSE, apikey |-> NoKey, keys |-> {NoKey},
            names |-> Projects,
            mkdir |-> {TRUE}]
  /\ fsDirs = {BaseDir} \cup {ProjectsDir(p) : p \in Projects}
  /\ fsFiles = {SessionFile(ProjectsDir("p1"), 1, 1)}
  /\ sessionCache = [p \in Projects |-> NoEntry]

SpecFanout == InitFanout /\ [][Next]_vars

\* ------------------------------------------------------------------ frame table
\* One turn whose upstream streams the lines of Script and ends the stream at
\* any point.
InitScript ==
  /\ InitChat
  /\ env = [turns |-> 1, sids |-> {1}, projects |-> {NoProject},
            frames |-> Len(Script),
            lines |-> {ScriptLine(i) : i \in 1..Len(Script)},
            failures |-> {"connect"}, ops |-> 0, locks |-> FALSE, invalid |-> FALSE,
            traversal |-> FALSE, apikey |-> NoKey, keys |-> {NoKey},
            names |-> Projects,
            mkdir |-> {TRUE}]
  /\ fsDirs = {BaseDir} \cup {ProjectsDir(p) : p \in Projects}
  /\ fsFiles = {SessionFile(ProjectsDir("p1"), 1, 1)}
  /\ sessionCache = [p \in Projects |-> NoEntry]

SpecScript == InitScript /\ [][Next]_vars

\* ------------------------------------------------------------------ chat without project
\* Lifecycle requests on project p1 beside one chat turn that names p1 or no
\* project.
InitAnyProject ==
  /\ InitChat
  /\ env = [turns |-> 1, sids |-> {1}, projects |-> Projects \cup {NoProject},
            frames |-> CoordFrames, lines |-> {DataLine("done", NoField, NoField, NoField)},
            failures |-> {"connect"}, ops |-> MaxOps, locks |-> FALSE, invalid |-> FALSE,
            traversal |-> FALSE, apikey |-> NoKey, keys |-> {NoKey},
            names |-> Projects,
            mkdir |-> {TRUE}]
  /\ fsDirs = {BaseDir} \cup {ProjectsDir(p) : p \in Projects}
  /\ fsFiles = {SessionFile(ProjectsDir("p1"), 1, 1)}
  /\ sessionCache = [p \in Projects |-> NoEntry]

SpecAnyProject == InitAnyProject /\ [][NextCache]_vars

\* ------------------------------------------------------------------ path traversal
\* Lifecycle requests on project p1 by clients that also send the project name
\* "..", while the base directory holds a session file of its own.
InitPaths ==
  /\ InitChat
  /\ env = [turns |-> 0, sids |-> {1}, projects |-> Projects,
            frames |-> CoordFrames, lines |-> {DataLine("done", NoField, NoField, NoField)},
            failures |-> {"connect"}, ops |-> MaxOps, locks |-> FALSE, invalid |-> FALSE,
            traversal |-> TRUE, apikey |-> NoKey, keys |-> {NoKey},
            names |-> Projects,
            mkdir |-> {TRUE}]
  /\ fsDirs = {BaseDir} \cup {ProjectsDir(p) : p \in Projects}
  /\ fsFiles = {SessionFile(ProjectsDir("p1"), 1, 1), SessionFile(BaseDir, 1, 1)}
  /\ sessionCache = [p \in Projects |-> NoEntry]

SpecPaths == InitPaths /\ [][LifecycleNext]_vars

\* ------------------------------------------------------------------ project directory
\* Chat turns on session 1 that name project p1 or no project; the session file
\* is absent, under projects/p1, under projetos/p1 or in the base directory.
InitDirs ==
  /\ InitChat
  /\ env = [turns |-> MaxTurns, sids |-> {1}, projects |-> Projects \cup {NoProject},
            frames |-> CoordFrames,
            lines |-> {DataLine("done", NoField, NoField, NoField)},
            failures |-> {"connect"}, ops |-> 0, locks |-> FALSE, invalid |-> FALSE,
            traversal |-> FALSE, apikey |-> NoKey, keys |-> {NoKey},
            names |-> Projects,
            mkdir |-> {TRUE}]
  /\ fsDirs = {BaseDir} \cup {ProjectsDir(p) : p \in Projects}
                        \cup {ProjetosDir(p) : p \in Projects}
  /\ \E files \in {{}} \cup {{SessionFile(dir, 1, 1)} :
                                 dir \in {ProjectsDir("p1"), ProjetosDir("p1"), BaseDir}} :
       fsFiles = files
  /\ sessionCache = [p \in Projects |-> NoEntry]

SpecDirs == InitDirs /\ [][Next]_vars

\* ------------------------------------------------------------------ full buffer
\* One chat turn whose upstream streams more numbered text lines than the
\* event channel holds, and whose client may disconnect.
SpecDrain == InitFanout /\ [][NextCancel]_vars /\ Fairness

\* ------------------------------------------------------------------ replies
\* Turns on the session ids the clients name, with an upstream whose lines
\* depend on the call they answer.
InitReply ==
  /\ InitChat
  /\ env = [turns |-> MaxTurns, sids |-> ClientIds, projects |-> {NoProject},
            frames |-> MaxFrames,
            lines |-> {ReplyLine(m, i, MaxFrames) : m \in Turns, i \in 1..MaxFrames},
            failures |-> {"connect"}, ops |-> 0, locks |-> FALSE, invalid |-> FALSE,
            traversal |-> FALSE, apikey |-> NoKey, keys |-> {NoKey},
            names |-> Projects,
            mkdir |-> {TRUE}]
  /\ fsDirs = {BaseDir} \cup {ProjectsDir(p) : p \in Projects}
  /\ fsFiles = {SessionFile(ProjectsDir("p1"), 1, 1)}
  /\ sessionCache = [p \in Projects |-> NoEntry]

SpecReply == InitReply /\ [][Next]_vars

\* ------------------------------------------------------------------ MkdirAll failure
\* Lifecycle requests on project p1 beside a chat turn that names p1 and a
\* session with or without file, on a server whose os.MkdirAll may fail.
InitMkdir ==
  /\ InitChat
  /\ env = [turns |-> 1, sids |-> ClientIds, projects |-> Projects,
            frames |-> CoordFrames, lines |-> {DataLine("done", NoField, NoField, NoField)},
            failures |-> {"connect"}, ops |-> MaxOps, locks |-> FALSE, invalid |-> FALSE,
            traversal |-> FALSE, apikey |-> NoKey, keys |-> {NoKey},
            names |-> Projects,
            mkdir |-> {TRUE, FALSE}]
  /\ fsDirs = {BaseDir} \cup {ProjectsDir(p) : p \in Projects}
  /\ fsFiles = {SessionFile(ProjectsDir("p1"), 1, 1)}
  /\ sessionCache = [p \in Projects |-> NoEntry]

SpecMkdir == InitMkdir /\ [][NextCache]_vars

\* ------------------------------------------------------------------ read session
\* GET /api/projects/{projectName}/sessions/{sessionID}: no authMiddleware;
\* validatePath(sessionFile) (else 400), validateFileOperation(sessionFile,
\* "read") whose os.Stat fails for a missing file (400).
ReadValidate(o) ==
  /\ Arrives(o)
  /\ op[o].kind = "none"
  /\ \E p \in DeleteSessionProjects, id \in ClientIds, k \in env.keys :
       op' = [op EXCEPT ![o] =
                IF ~validatePath(ProjectsDir(p), ProjectsRoot)
                THEN [NoOp EXCEPT !.kind = "readsession", !.project = p, !.id = id,
                                  !.key = k, !.pc = "done", !.status = 400]
                ELSE
                [NoOp EXCEPT !.kind = "readsession", !.project = p, !.id = id, !.key = k,
                             !.present = FileExists(ProjectsDir(p), id),
                             !.pc = IF FileExists(ProjectsDir(p), id) THEN "open" ELSE "done",
                             !.status = IF FileExists(ProjectsDir(p), id) THEN 0 ELSE 400]]
  /\ UNCHANGED <<env, ucall, now, disconnected, held, fsVars, chatVars, sessionCache, mutated>>

\* Read session: os.Open(sessionFile), 404 when it fails; the lines of the
\* file are scanned and answered.
ReadOpen(o) ==
  /\ At(o, "readsession", "open")
  /\ IF FileExists(ProjectsDir(op[o].project), op[o].id)
     THEN op' = [op EXCEPT ![o].data = ReadFile(ProjectsDir(op[o].project), op[o].id),
                           ![o].pc = "done", ![o].status = 200]
     ELSE Answer(o, 404)
  /\ UNCHANGED <<env, ucall, now, disconnected, held, fsVars, chatVars, sessionCache, mutated>>

ReadNext == \E o \in Ops : ReadValidate(o) \/ ReadOpen(o)

\* Lifecycle and read-session requests by clients that also name the project
\* "..", with a session file in the base directory.
InitEscape ==
  /\ InitChat
  /\ env = [turns |-> 0, sids |-> {1}, projects |-> Projects,
            frames |-> CoordFrames, lines |-> {DataLine("done", NoField, NoField, NoField)},
            failures |-> {"connect"}, ops |-> MaxOps, locks |-> FALSE, invalid |-> FALSE,
            traversal |-> TRUE, apikey |-> NoKey, keys |-> {NoKey},
            names |-> Projects \cup {DotDot},
            mkdir |-> {TRUE}]
  /\ fsDirs = {BaseDir} \cup {ProjectsDir(p) : p \in Projects}
  /\ fsFiles = {SessionFile(ProjectsDir("p1"), 1, 1), SessionFile(BaseDir, 1, 1)}
  /\ sessionCache = [p \in Projects |-> NoEntry]

NextEscape == LifecycleNext \/ ReadNext

SpecEscape == InitEscape /\ [][NextEscape]_vars

\* ------------------------------------------------------------------ project names
\* Lifecycle requests by clients that delete projects under every name of the
\* table; the projects with a hyphen in their name have a directory under
\* projects/, and under projetos/ there is a directory for the full name and
\* one for its last part.
HyphenNames == {"my-app", "-Users-2a-diego", "-Users-a-"}
InitNames ==
  /\ InitChat
  /\ env = [turns |-> 0, sids |-> {1}, projects |-> Projects,
            frames |-> CoordFrames, lines |-> {DataLine("done", NoField, NoField, NoField)},
            failures |-> {"connect"}, ops |-> MaxOps, locks |-> FALSE, invalid |-> FALSE,
            traversal |-> FALSE, apikey |-> NoKey, keys |-> {NoKey},
            names |-> ProjectNames \ {NoProject},
            mkdir |-> {TRUE}]
  /\ fsDirs = {BaseDir} \cup {ProjectsDir(p) : p \in Projects \cup HyphenNames}
                \cup {ProjetosDir(p) : p \in HyphenNames \cup {"app", "diego"}}
  /\ fsFiles = {SessionFile(ProjectsDir("p1"), 1, 1)}
                \cup {SessionFile(ProjectsDir(p), 2, 2) : p \in HyphenNames}
                \cup {SessionFile(ProjetosDir(p), 2, 2) : p \in {"my-app", "app", "diego"}}
  /\ sessionCache = [p \in Projects |-> NoEntry]

SpecNames == InitNames /\ [][LifecycleNext]_vars

\* ------------------------------------------------------------------ time
\* The clock is followed until an entry stored in the first seconds is older
\* than the TTL.
MaxNow == CacheTTL + 2

\* One second passes.
Tick ==
  /\ now < MaxNow
  /\ now' = now + 1
  /\ UNCHANGED <<env, ucall, disconnected, fsVars, chatVars, sessionCache, op, mutated, held>>

\* List requests of project p1 while time passes.
InitTTL ==
  /\ InitChat
  /\ env = [turns |-> 0, sids |-> {1}, projects |-> Projects,
            frames |-> CoordFrames, lines |-> {DataLine("done", NoField, NoField, NoField)},
            failures |-> {"connect"}, ops |-> MaxOps, locks |-> FALSE, invalid |-> FALSE,
            traversal |-> FALSE, apikey |-> NoKey, keys |-> {NoKey},
            names |-> Projects,
            mkdir |-> {TRUE}]
  /\ fsDirs = {BaseDir} \cup {ProjectsDir(p) : p \in Projects}
  /\ fsFiles = {SessionFile(ProjectsDir("p1"), 1, 1)}
  /\ sessionCache = [p \in Projects |-> NoEntry]

NextTTL ==
  \/ Tick
  \/ \E o \in Ops : ListGet(o) \/ ListScan(o) \/ ListPut(o)

SpecTTL == InitTTL /\ [][NextTTL]_vars

\* ------------------------------------------------------------------ properties
Last(seq) == seq[Len(seq)]
\* Position of the turn t in a sequence of turns (0: not in it).
Pos(seq, t) == IF \E i \in 1..Len(seq) : seq[i] = t
               THEN CHOOSE i \in 1..Len(seq) : seq[i] = t ELSE 0
Enqueued(t) == Pos(enqOrder, t) > 0
\* The turns of the session s in a sequence of turns, in order.
OfSession(seq, s) == SelectSeq(seq, LAMBDA t : hsid[t] = s)
IsPrefix(a, b) == Len(a) <= Len(b) /\ \A i \in 1..Len(a) : a[i] = b[i]
\* The worker w is inside executeClaudeCLI.
InProxy(w) == wpc[w] \in {"stream", "close"}
\* The worker w has been launched and has not returned.
Alive(w) == wpc[w] \notin {"none", "exit"}
\* The events published on the channel of t so far, as the frames they are
\* written as.
Events(t) == sse[t] \o [i \in 1..Len(chan[t]) |-> SSEMessage(chan[t][i])]
Occurrences(seq, t) == Cardinality({i \in 1..Len(seq) : seq[i] = t})

\* C1: at every moment at most one worker is inside the upstream proxy call for
\* a given session id.
C1_OneWorkerPerSession ==
  \A s \in SessionIds : Cardinality({w \in Turns : hsid[w] = s /\ InProxy(w)}) <= 1

\* C2: of two turns enqueued in that order on one session, the upstream call of
\* the second begins, and its client receives an event, only after the channel
\* of the first was closed.
C2_NextStartsAfterClose ==
  \A t1, t2 \in Turns :
    (/\ Enqueued(t1) /\ Enqueued(t2)
     /\ hsid[t1] = hsid[t2]
     /\ Pos(enqOrder, t1) < Pos(enqOrder, t2)
     /\ (ustate[t2] # "none" \/ Len(sse[t2]) > 0))
    => closed[t1]

\* C3: the channels of the turns of one session are closed in the order the
\* turns were enqueued.
C3_CloseOrderIsEnqueueOrder ==
  \A s \in SessionIds : IsPrefix(OfSession(closeOrder, s), OfSession(enqOrder, s))

\* C4: no state has a turn waiting in a queue while no worker runs for its
\* session and no handler is about to check the flag and launch one.
C4_NoStrandedTurn ==
  \A t \in Turns :
    (hq[t] # NoQueue /\ \E i \in 1..Len(qmessages[hq[t]]) : qmessages[hq[t]][i] = t)
    => \/ \E w \in Turns : Alive(w) /\ hsid[w] = hsid[t]
       \/ \E h \in Turns : hq[h] = hq[t] /\ hpc[h] \in {"check", "start"}

\* C5: a channel is closed once, by the worker that dequeued its turn, after
\* the upstream call of the turn has ended (failed before the stream, end of
\* stream, read error), and nothing is sent on it after it was closed.
C5_ClosedOnceAfterUpstreamEnded ==
  /\ ~chanPanic
  /\ \A t \in Turns :
       /\ Occurrences(closeOrder, t) <= 1
       /\ closed[t] => /\ Occurrences(closeOrder, t) = 1
                       /\ closer[t] \in dequeuer[t]
                       /\ ustate[t] \in {"failed", "eof", "err"}

\* Two workers ran for one session, and a turn was closed by the worker the
\* other handler launched, after its stream ended with a read error.
C5_Witness ==
  \E t \in Turns :
    /\ closed[t] /\ closer[t] # t /\ ustate[t] = "err" /\ Len(Events(t)) > 0
    /\ \E w \in Turns : w # closer[t] /\ Alive(w) /\ hsid[w] = hsid[t]

\* C6: a turn waits only in the queue of its own session and is proxied only by
\* a worker of its own session: the queue of a session holds no turn of another
\* session, and no worker of another session serves it.
C6_SessionsIndependent ==
  /\ \A t1, t2 \in Turns :
       (hq[t1] # NoQueue /\ hq[t1] = hq[t2]) => hsid[t1] = hsid[t2]
  /\ \A w \in Turns :
       /\ wmsg[w] # 0 => hsid[wmsg[w]] = hsid[w]
       /\ wq[w] # NoQueue =>
            \A i \in 1..Len(qmessages[wq[w]]) : hsid[qmessages[wq[w]][i]] = hsid[w]

\* The upstream call of a turn of one session has not returned, and a turn of
\* another session, enqueued later, was streamed and closed and its handler is done.
C6_Witness ==
  \E a, b \in Turns :
    /\ hsid[a] # hsid[b]
    /\ ustate[a] = "open" /\ ~closed[a]
    /\ Pos(enqOrder, a) > 0 /\ Pos(enqOrder, a) < Pos(enqOrder, b)
    /\ closed[b] /\ Len(sse[b]) > 0 /\ hpc[b] = "done"

\* C7: every handler and worker of a session holds the queue object the
\* registry maps the session id to: one object per id, never replaced or removed.
C7_OneQueuePerSession ==
  /\ \A t \in Turns :
       /\ hq[t] # NoQueue => hq[t] = sessionQueues[hsid[t]]
       /\ wq[t] # NoQueue => wq[t] = sessionQueues[hsid[t]]
  /\ nqueues = Cardinality({s \in SessionIds : sessionQueues[s] # NoQueue})

\* Two handlers and a worker of one session hold the queue of the session.
C7_Witness ==
  \E t1, t2 \in Turns :
    /\ t1 # t2 /\ hsid[t1] = hsid[t2]
    /\ hq[t1] # NoQueue /\ hq[t2] = hq[t1] /\ wq[t1] = hq[t1]

\* C8: when the response stream of a turn has ended, the last event written to
\* it is a done event or an error event.
C8_LastEventDoneOrError ==
  \A t \in Turns :
    hpc[t] \in {"invalidate", "done"}
    => /\ Len(sse[t]) > 0
       /\ Last(sse[t]).type \in {"done", "error"}

\* C9: when the upstream call of a turn has failed (before the stream, or by a
\* read error during it) and the channel is closed, the last event published is
\* the error event of the failure.
C9_FailureEndsWithError ==
  \A t \in Turns :
    (closed[t] /\ ustate[t] \in {"failed", "err"})
    => /\ Len(Events(t)) > 0
       /\ Last(Events(t)).type = "error"

\* C10: once a session delete, a project delete, a fork or a chat turn touching
\* the project p has completed, the cache has no fresh entry for p until the
\* next cache get of p, which therefore misses.
C10_NextGetMisses ==
  \A p \in Projects : p \in mutated => ~getCachedSessions(p).found

\* Every lifecycle request that has arrived has been answered.
Quiet == \A o \in Ops : op[o].pc \in {"idle", "done"}
\* The requests of the behaviour so far are list requests, session deletes and forks.
OnlySessionOps == \A o \in Ops : op[o].kind \in {"none", "list", "delete", "fork"}
\* What a scan of the directory of the project p would list now.
OnDisk(p) == Sorted(SessionsIn(ProjectsDir(p)))

\* C11: when list requests run beside a session delete or a fork of the project
\* p, then once the mutation and every request overlapping it have been answered,
\* a fresh cache entry of p lists exactly the session files on disk under p.
C11_QuietCacheMatchesDisk ==
  (Quiet /\ OnlySessionOps)
  => \A p \in Projects :
       getCachedSessions(p).found => getCachedSessions(p).sessions = OnDisk(p)

\* The list request o has called getCachedSessions.
PastGet(o) == op[o].kind = "list" /\ op[o].pc # "idle"

\* C12 as claimed: a cache get of p is a hit exactly when an entry of p exists
\* and its age is strictly below the TTL; an entry aged exactly 5:00 is a miss.
C12_HitIffYoungerThanTTL ==
  \A o \in Ops :
    PastGet(o) => (op[o].hit <=> (op[o].age # NoAge /\ op[o].age < CacheTTL))

\* C12: a cache get of p is a hit exactly when an entry of p exists and its age
\* is at most the TTL (4:59 and 5:00 are served from the cache, 5:01 is a miss);
\* a hit is answered 200 with the stored listing.
C12_HitIffNotOlderThanTTL ==
  \A o \in Ops :
    PastGet(o) =>
      /\ op[o].hit <=> (op[o].age # NoAge /\ op[o].age <= CacheTTL)
      /\ op[o].hit => (op[o].pc = "done" /\ op[o].status = 200)

\* A list request was served from an entry aged exactly the TTL, and another
\* one found no entry and stored a listing.
C12_Witness ==
  \E o, first \in Ops :
    /\ PastGet(o) /\ op[o].hit /\ op[o].age = CacheTTL /\ op[o].sessions = <<1>>
    /\ PastGet(first) /\ ~op[first].hit /\ op[first].age = NoAge /\ op[first].status = 200

\* The thread th is blocked in Lock() or RLock().
Waiting(th) ==
  /\ env.locks
  /\ Wants(th) # NoMutex
  /\ Wants(th) \notin held[th]
  /\ ~Free(Wants(th), th)

\* C13: no thread holds more than one of the mutexes (registry, a session
\* queue, directory cache) at a time, and a thread that holds a mutex is not
\* waiting for another: it is inside the function that took the mutex, so no
\* state is a deadlock on the mutexes.
C13_AtMostOneMutexHeld ==
  \A th \in Threads :
    /\ Cardinality(held[th]) <= 1
    /\ held[th] # {} => (Wants(th) \in held[th] /\ ~Waiting(th))

\* A lifecycle handler holds the cache mutex while the chat handler and another
\* lifecycle handler are blocked on it.
C13_Witness ==
  \E o, o2 \in Ops, t \in Turns :
    /\ o # o2
    /\ CacheLock \in held[OpHandler(o)]
    /\ Waiting(OpHandler(o2))
    /\ Waiting(Handler(t))

\* The thread th is at an upstream call, a channel operation or a filesystem
\* operation: the locator, the receive loop and the directory listing of a chat
\* handler; the upstream call, stream loop and close of a worker; the file
\* operations of a lifecycle handler.
DoingIO(th) ==
  CASE th[1] = "handler" -> hpc[th[2]] \in {"new", "recv"}
    [] th[1] = "worker" -> wpc[th[2]] \in {"exec", "stream", "close"}
    [] OTHER -> \/ op[th[2]].pc \in {"scan", "stat", "remove", "read", "mkdir", "write",
                                      "projetos"}
                \/ op[th[2]].pc = "idle" /\ op[th[2]].kind = "none"

\* C14: no thread holds a registry, queue or cache mutex while it is at an
\* upstream call, a channel send, receive or close, or a filesystem operation.
C14_NoMutexAcrossIO ==
  \A th \in Threads : DoingIO(th) => held[th] = {}

\* A worker is inside the stream loop of a turn while the handler of another
\* turn of the session holds the mutex of the queue.
C14_Witness ==
  \E w, t \in Turns :
    /\ w # t
    /\ wpc[w] = "stream"
    /\ wq[w] # NoQueue
    /\ QueueMutex(wq[w]) \in held[Handler(t)]

\* C15: when the client of a turn whose upstream call is open disconnects, the
\* event channel of the turn is eventually closed (the read is aborted), even if
\* the upstream sends nothing more.
C15_DisconnectClosesTurn ==
  \A t \in Turns : (disconnected[t] /\ ustate[t] = "open") ~> closed[t]

\* C16: a DELETE of a session whose file does not exist is answered 404 (so
\* the second of two deletes of a session is answered 404).
C16_DeleteMissingAnswers404 ==
  \A o \in Ops :
    (op[o].kind = "delete" /\ op[o].pc = "done" /\ ~op[o].present) => op[o].status = 404

\* C17 as claimed: a fork whose target file exists when the request arrives is
\* answered 409.
C17_ExistingTargetAnswers409 ==
  \A o \in Ops :
    (op[o].kind = "fork" /\ op[o].pc = "done" /\ op[o].present) => op[o].status = 409

\* C17: a fork whose source file exists when it is validated and whose target
\* file exists when it is probed is answered 409, and the answer leaves the
\* files (target and source among them) and the cache as they are.
C17_ExistingTargetOfValidSourceAnswers409 ==
  [][\A o \in Ops :
       (/\ At(o, "fork", "stat")
        /\ FileExists(ProjectsDir(op[o].project), op[o].target)
        /\ op'[o] # op[o])
       => /\ op'[o].pc = "done" /\ op'[o].status = 409
          /\ fsFiles' = fsFiles /\ fsDirs' = fsDirs
          /\ sessionCache' = sessionCache]_vars

\* A fork succeeded and the same request, repeated, was answered 409; the
\* target holds the bytes of the source.
C17_Witness ==
  \E o, again \in Ops :
    /\ o # again
    /\ op[o].kind = "fork" /\ op[o].status = 200
    /\ op[again].kind = "fork" /\ op[again].status = 409
    /\ op[again].id = op[o].id /\ op[again].target = op[o].target
    /\ op[again].project = op[o].project
    /\ FileExists(ProjectsDir(op[o].project), op[o].id)
    /\ FileExists(ProjectsDir(op[o].project), op[o].target)

\* C18: a fork request whose source id equals its target id never succeeds
\* and never writes a file.
C18_ForkOntoItselfNeverSucceeds ==
  \A o \in Ops :
    (op[o].kind = "fork" /\ op[o].id = op[o].target)
    => (op[o].pc # "invalidate" /\ op[o].status # 200)

\* The session ids the next list request of p would be answered with, were it
\* served now: the fresh cache entry, else the directory listing.
NextList(p) ==
  IF getCachedSessions(p).found THEN getCachedSessions(p).sessions ELSE OnDisk(p)
\* No request but o writes or removes files.
OnlyWriter(o) ==
  \A other \in Ops \ {o} : op[other].kind \in {"none", "list"}
InSeq(x, seq) == \E i \in 1..Len(seq) : seq[i] = x

\* After a successful fork of A to B in the project p with no other writer, B
\* holds the bytes read from A and A still holds them.
ForkCopied(o) ==
  LET dir == ProjectsDir(op[o].project)
  IN /\ FileExists(dir, op[o].id) /\ FileExists(dir, op[o].target)
     /\ ReadFile(dir, op[o].id) = op[o].data
     /\ ReadFile(dir, op[o].target) = op[o].data

\* C19: after a successful fork of A to B in the project p, with no other
\* writer, reading B returns the content of A, A is unchanged, and the next
\* list of p is answered with a set that contains A and B.
C19_ForkCopiesAndIsListed ==
  \A o \in Ops :
    (op[o].kind = "fork" /\ op[o].status = 200 /\ OnlyWriter(o))
    => /\ ForkCopied(o)
       /\ InSeq(op[o].id, NextList(op[o].project))
       /\ InSeq(op[o].target, NextList(op[o].project))

\* The requests validation must reject: a message that is too long, blank or
\* holds a dangerous character; a fork with an id that is no UUID or without
\* project name; a project delete with a forbidden character, a name that is
\* too long, or a blank name.
BadMessage(m) == m.text \in {"long", " ", "a;b"}
BadFork(r) == r.id \in {NoSession, NotUUID} \/ r.target \in {NoSession, NotUUID}
              \/ r.project = NoProject
BadName(p) == p \in {"bar", "space", "long", DotDot}
\* The step rejects a request.
Rejects ==
  \/ \E t \in Turns : hpc[t] = "new" /\ hpc'[t] = "rejected"
  \/ \E o \in Ops : /\ op[o].pc = "idle" /\ op'[o].status = 400
                     /\ op'[o].kind \in {"fork", "delproject"}

\* C20: a chat request whose message fails sanitization, a fork with a
\* non-UUID id or an empty project name and a project delete with an invalid
\* name are answered 400, and the step that rejects them creates no queue,
\* enqueues no turn, starts no worker or upstream call and leaves the
\* filesystem and the cache unchanged.
C20_RejectedWithoutSideEffect ==
  /\ [](\A t \in Turns :
          (hpc[t] # "new" /\ BadMessage(req[t].message))
          => /\ hpc[t] = "rejected"
             /\ hq[t] = NoQueue /\ ~Enqueued(t)
             /\ wpc[t] = "none" /\ ustate[t] = "none" /\ sse[t] = <<>>)
  /\ [](\A o \in Ops :
          (\/ op[o].kind = "fork" /\ BadFork(op[o])
           \/ op[o].kind = "delproject" /\ BadName(op[o].project))
          => (op[o].pc = "done" /\ op[o].status = 400))
  /\ [][Rejects => UNCHANGED <<fsVars, sessionCache, queueVars, workerVars, chanVars,
                               enqOrder>>]_vars

\* A chat request, a fork and a project delete were rejected, and the session
\* file of the project is in place.
C20_Witness ==
  \E t \in Turns, o, o2 \in Ops :
    /\ hpc[t] = "rejected" /\ BadMessage(req[t].message)
    /\ op[o].kind = "fork" /\ op[o].status = 400 /\ BadFork(op[o])
    /\ op[o2].kind = "delproject" /\ op[o2].status = 400 /\ BadName(op[o2].project)
    /\ FileExists(ProjectsDir("p1"), 1)

\* The request o of a mutating route, or the chat request t, was sent to a
\* server that has an API_KEY with an X-API-Key header that is not the key.
WrongKeyOp(o) ==
  /\ env.apikey # NoKey
  /\ op[o].kind \in {"delete", "fork", "delproject"}
  /\ op[o].key # env.apikey
WrongKeyTurn(t) ==
  /\ env.apikey # NoKey
  /\ hpc[t] # "new"
  /\ req[t].key # env.apikey

\* C21: when API_KEY is set, a delete session, delete project, fork or chat
\* request whose X-API-Key header is not the key is answered 401 at once, and
\* no step of its handler changes the filesystem, the cache or a queue.
C21_WrongKeyAnswered401 ==
  /\ [](\A o \in Ops : WrongKeyOp(o) => (op[o].pc = "done" /\ op[o].status = 401))
  /\ [](\A t \in Turns :
          WrongKeyTurn(t) => (hpc[t] = "unauthorized" /\ hq[t] = NoQueue /\ ~Enqueued(t)))
  /\ [][(\E o \in Ops : WrongKeyOp(o)' /\ op'[o] # op[o])
        => UNCHANGED <<fsVars, sessionCache, queueVars>>]_vars

\* The handler o of a list, delete-session or fork request is past its
\* validation and at a filesystem call; the directory of the file the call is
\* made on.
AtFileOp(o) == op[o].pc \in {"scan", "stat", "remove", "read", "mkdir", "write"}
OpDir(o) == ProjectsDir(op[o].project)

\* C22: a handler that is at a filesystem call makes it on a path validatePath
\* accepts against the projects root: no project name takes a file operation
\* out of the root.
C22_FileOpsInsideRoot ==
  \A o \in Ops : AtFileOp(o) => validatePath(OpDir(o), ProjectsRoot)

\* The step is the locator of the chat request t, which names a session id
\* and a project.
LocatesNamed(t) ==
  /\ hpc[t] = "new" /\ hpc'[t] = "getq"
  /\ req'[t].session_id # NoSession
  /\ req'[t].project_name # NoProject

\* C23: the locator of a chat request with session id and project name
\* resolves to projects/<project> with sessionExists = true when
\* projects/<project>/<id>.jsonl exists, and creates nothing; otherwise it
\* creates projetos/<project> and resolves to it with sessionExists = false.
C23_LocatorProbesPrimaryRoot ==
  [][\A t \in Turns :
       LocatesNamed(t) =>
         LET p == req'[t].project_name
             id == req'[t].session_id
         IN /\ hsid'[t] = id
            /\ IF FileExists(ProjectsDir(p), id)
               THEN /\ hdir'[t] = ProjectsDir(p)
                    /\ hexists'[t]
                    /\ fsDirs' = fsDirs
               ELSE /\ hdir'[t] = ProjetosDir(p)
                    /\ ~hexists'[t]
                    /\ fsDirs' = fsDirs \cup {ProjetosDir(p)}]_vars

\* A chat request on project p1 and session 1 arrived after the session file
\* was deleted and was resolved to the new directory projetos/p1.
C23_Witness ==
  \E t \in Turns, o \in Ops :
    /\ op[o].kind = "delete" /\ op[o].status = 200
    /\ req[t].session_id = 1 /\ req[t].project_name = "p1"
    /\ hpc[t] = "getq"
    /\ hdir[t] = ProjetosDir("p1") /\ ~hexists[t]
    /\ ProjetosDir("p1") \in fsDirs
    /\ ~FileExists(ProjectsDir("p1"), 1)

\* The chat request t named no session and its handler has located one.
NoIdTurn(t) ==
  /\ hpc[t] \notin {"new", "rejected", "unauthorized"}
  /\ req[t].session_id = NoSession
\* The upstream call of the turn t is in progress.
Proxied(t) == \E w \in Turns : wmsg[w] = t /\ InProxy(w)

\* What the locator gives requests without session id: the id of the first
\* *.jsonl file of the base directory and sessionExists = true, hence one id and
\* one queue for all of them; or, with no such file, a minted UUID and
\* sessionExists = false, hence ids and queues of their own.
NoIdLocated ==
  /\ \A t \in Turns :
       NoIdTurn(t) =>
         IF BaseSessions # {}
         THEN hsid[t] = Min(BaseSessions) /\ hexists[t]
         ELSE hsid[t] = MintedId(t) /\ ~hexists[t]
  /\ \A t, u \in Turns :
       (t # u /\ NoIdTurn(t) /\ NoIdTurn(u) /\ hq[t] # NoQueue /\ hq[u] # NoQueue) =>
         IF BaseSessions # {}
         THEN hsid[t] = hsid[u] /\ hq[t] = hq[u]
         ELSE hsid[t] # hsid[u] /\ hq[t] # hq[u]

\* C24: a chat request without session id gets the id of the first *.jsonl
\* file of the base directory and sessionExists = true when there is one, and
\* two such requests then have the same id, the same queue and are proxied one
\* at a time; when there is none it gets a minted UUID and sessionExists =
\* false, and two such requests share neither id nor queue.
C24_NoIdSharesFirstBaseSession ==
  /\ NoIdLocated
  /\ \A t, u \in Turns :
       (t # u /\ NoIdTurn(t) /\ NoIdTurn(u) /\ BaseSessions # {}) =>
         ~(Proxied(t) /\ Proxied(u))

\* C25: within a turn whose stream is read, the SSE frames written so far
\* followed by the events still buffered are, one for one and in order, the
\* events of the upstream lines read so far; the buffer never holds more than
\* its capacity, and a full buffer loses nothing.
C25_FramesAreEventsInOrder ==
  \A t \in Turns :
    ustate[t] \in {"open", "eof", "err"} =>
      /\ Len(chan[t]) <= ChanCap
      /\ Len(sse[t]) + Len(chan[t]) = nread[t]
      /\ \A i \in 1..Len(sse[t]) :
           sse[t][i] = SSEMessage(MapLine(StreamLine(i), hsid[t])[1])
      /\ \A i \in 1..Len(chan[t]) :
           chan[t][i] = MapLine(StreamLine(Len(sse[t]) + i), hsid[t])[1]

\* The buffer is full after the handler wrote a frame, and the proxy has more
\* lines to publish: its next send blocks.
C25_Witness ==
  \E t \in Turns :
    /\ Len(chan[t]) = ChanCap
    /\ Len(sse[t]) > 0
    /\ wpc[t] = "stream" /\ nread[t] < env.frames

\* The events the mapping table gives for one line: one text event with the
\* content field, else the text field, else the empty string, for the types text
\* and content; one done event with the session id for session_created and
\* done; one error event with the error field for error; none for any other
\* type and for a line that is not a data line.
TableEvents(line, sessionID) ==
  IF line.kind # "data" THEN <<>>
  ELSE IF line.type \in {"text", "content"} THEN
         <<TextEvent(IF line.content # NoField THEN line.content
                     ELSE IF line.text # NoField THEN line.text ELSE "")>>
  ELSE IF line.type \in {"session_created", "done"} THEN <<DoneEvent(sessionID)>>
  ELSE IF line.type = "error" THEN
         <<ErrorEvent(IF line.error # NoField THEN line.error ELSE "")>>
  ELSE <<>>
\* The events the table gives for the first n lines of Script.
RECURSIVE TableOfScript(_, _)
TableOfScript(n, sessionID) ==
  IF n = 0 THEN <<>>
  ELSE TableOfScript(n - 1, sessionID) \o TableEvents(Script[n], sessionID)
\* The frames of a sequence of events.
Frames(events) == [i \in 1..Len(events) |-> SSEMessage(events[i])]

\* C26: the events published for the lines read so far from the stream are
\* the events the mapping table gives for these lines, in order.
C26_EventsFollowTable ==
  \A t \in Turns :
    ustate[t] \in {"open", "eof", "err"} =>
      Events(t) = Frames(TableOfScript(nread[t], hsid[t]))

\* A handler holds the queue q and is between its enqueue and the end of its
\* start check (isProcessing, then setProcessing(true)).
Starting(q) == \E h \in Turns : hq[h] = q /\ hpc[h] \in {"check", "start"}

\* C27: a queue whose processing flag is false, while no handler is between
\* its enqueue and its start check, is empty and has no worker running: the
\* flag is cleared only by a worker that found the queue empty, in one step
\* with the emptiness check.
C27_IdleFlagMeansDrained ==
  \A q \in 1..nqueues :
    (~qprocessing[q] /\ ~Starting(q))
    => /\ qmessages[q] = <<>>
       /\ ~\E w \in Turns : Alive(w) /\ sessionQueues[hsid[w]] = q

\* The turn t waits in the queue of its session.
InQueue(t) ==
  /\ hq[t] # NoQueue
  /\ \E i \in 1..Len(qmessages[hq[t]]) : qmessages[hq[t]][i] = t
\* A turn whose client disconnected while it waited stays in the queue until a
\* worker dequeues it; the worker that dequeued it calls the upstream for it,
\* and its channel is closed only after that call.
DisconnectedTurnKept ==
  /\ [](\A t \in Turns : (Enqueued(t) /\ dequeuer[t] = {}) => InQueue(t))
  /\ [](\A t \in Turns : closed[t] => (dequeuer[t] # {} /\ ustate[t] # "none"))
  /\ \A t \in Turns :
       (disconnected[t] /\ \E w \in Turns : wmsg[w] = t) ~> (ustate[t] # "none")

\* C28: a turn whose client disconnects while the turn waits in the queue is
\* not removed from it; the worker that reaches it calls the upstream for it
\* and closes its channel afterwards; and from then on a turn enqueued later on
\* the same session is proxied only after that channel was closed.
C28_DisconnectedTurnStillServed ==
  /\ DisconnectedTurnKept
  /\ \A t1, t2 \in Turns :
       []((/\ disconnected[t1] /\ InQueue(t1)
           /\ Enqueued(t2) /\ hsid[t1] = hsid[t2]
           /\ Pos(enqOrder, t1) < Pos(enqOrder, t2))
          => [](ustate[t2] # "none" => closed[t1]))

\* The step is the exit of the chat handler t: its cache invalidation.
ChatExits(t) == hpc[t] = "invalidate" /\ hpc'[t] = "done"

\* C29: the exit of a chat handler whose request named the project P removes
\* the cache entry of P and leaves every other entry as it was; the exit of one
\* whose request named no project removes the entries of all projects, those
\* of projects whose directory is gone included.
C29_ChatExitInvalidates ==
  [][\A t \in Turns :
       ChatExits(t) =>
         IF req[t].project_name # NoProject
         THEN sessionCache' = [p \in DOMAIN sessionCache |->
                                 IF p = req[t].project_name THEN NoEntry
                                 ELSE sessionCache[p]]
         ELSE \A p \in DOMAIN sessionCache : sessionCache'[p] = NoEntry]_vars

\* The step is taken by the delete-project handler o, which is at pc after it.
DeleteProjectStep(o, pc) ==
  /\ op'[o] # op[o]
  /\ op'[o].kind = "delproject" /\ op'[o].pc = pc
\* The filesystem without the directory dir and the files in it.
Without(dir) ==
  /\ fsDirs' = fsDirs \ {dir}
  /\ fsFiles' = {f \in fsFiles : f.dir # dir}

LastPart(p) == NameParts[p][Len(NameParts[p])]
\* The directory under projetos/ a delete of project p has to remove: the one
\* of the last part of a name that starts with "-Users-", else the one of the
\* name itself.
SecondaryDir(p) == ProjetosDir(IF HasUsersPrefix(p) THEN LastPart(p) ELSE p)
\* The name of the request o passes sanitizeProjectName.
ValidName(o) == op[o].kind = "delproject" /\ sanitizeProjectName(op[o].project).ok

\* C31 as stated: for every valid project name, delete project answers success
\* having removed the directory of the full name under projects/ and the
\* directory of the last hyphen-separated part of the name under projetos/,
\* whatever the prefix of the name, and no other directory.
C31_RemovesLastPart ==
  /\ [](\A o \in Ops : (ValidName(o) /\ op[o].pc = "done") => op[o].status = 200)
  /\ [][\A o \in Ops :
          LET p == op'[o].project
          IN /\ DeleteProjectStep(o, "projetos") => Without(ProjectsDir(p))
             /\ DeleteProjectStep(o, "invalidate") => Without(ProjetosDir(LastPart(p)))
             /\ DeleteProjectStep(o, "done") => UNCHANGED fsVars]_vars

\* C31 amended: for every valid project name whose simple name is valid too,
\* delete project answers success having removed the directory of the full
\* name under projects/ and, under projetos/, the directory of the last
\* hyphen-separated part when the name starts with "-Users-" and the directory
\* of the full name otherwise, and no other directory; a valid name that
\* starts with "-Users-" and ends with a hyphen is answered 400 and nothing is
\* removed.
C31_RemovesSimpleName ==
  /\ [](\A o \in Ops :
          (ValidName(o) /\ op[o].pc = "done")
          => op[o].status = (IF HasUsersPrefix(op[o].project)
                                /\ LastPart(op[o].project) = NoProject
                             THEN 400 ELSE 200))
  /\ [][\A o \in Ops :
          LET p == op'[o].project
          IN /\ DeleteProjectStep(o, "projetos") => Without(ProjectsDir(p))
             /\ DeleteProjectStep(o, "invalidate") => Without(SecondaryDir(p))
             /\ DeleteProjectStep(o, "done") => UNCHANGED fsVars]_vars

\* The project my-app was deleted with its directories under both roots and
\* projetos/app is in place; the project -Users-2a-diego was deleted with
\* projetos/diego, and projetos/-Users-2a-diego is in place.
C31_Witness ==
  \E o1, o2 \in Ops :
    /\ op[o1].project = "my-app" /\ op[o1].status = 200
    /\ op[o2].project = "-Users-2a-diego" /\ op[o2].status = 200
    /\ {ProjectsDir("my-app"), ProjetosDir("my-app"),
        ProjectsDir("-Users-2a-diego"), ProjetosDir("diego")} \cap fsDirs = {}
    /\ {ProjetosDir("app"), ProjetosDir("-Users-2a-diego")} \subseteq fsDirs

\* The request o of a route that builds a path from the project name in the
\* request path names a project whose directory is outside the projects root.
Escapes(o) ==
  /\ op[o].kind \in {"readsession", "delete", "delproject"}
  /\ ~validatePath(ProjectsDir(op[o].project), ProjectsRoot)

\* C32: a read-session, delete-session or delete-project request whose path
\* escapes the projects root is answered 403, and the step that answers it
\* leaves the filesystem as it is; the request never reaches a file operation.
C32_EscapeAnswered403 ==
  /\ [](\A o \in Ops : Escapes(o) => (op[o].pc = "done" /\ op[o].status = 403))
  /\ [][\A o \in Ops : (op'[o] # op[o] /\ Escapes(o)') => UNCHANGED fsVars]_vars

\* The characters / \ : * ? " < > | (the backslash and the double quote are
\* written by name).
NineChars == {"/", "backslash", ":", "*", "?", "quote", "<", ">", "|"}
\* The name is not blank, at most 255 characters long, holds none of the nine
\* characters and no two dots in a row.
Acceptable(p) ==
  /\ ~NameInfo[p].blank
  /\ NameInfo[p].len <= MaxNameLen
  /\ NameInfo[p].chars \cap NineChars = {}
  /\ ~NameInfo[p].dotdot

\* C33: sanitizeProjectName accepts the name of a delete-project request
\* exactly when the name is not blank, at most 255 characters long, holds
\* none of the characters / \ : * ? " < > | and no "..", so that a name with
\* a single dot is accepted; a request with a rejected name is answered 400
\* by a step that leaves the filesystem as it is.
C33_AcceptsExactlyAcceptable ==
  /\ [](\A o \in Ops :
          op[o].kind = "delproject"
          => (sanitizeProjectName(op[o].project).ok <=> Acceptable(op[o].project)))
  /\ [](\A o \in Ops :
          (op[o].kind = "delproject" /\ ~sanitizeProjectName(op[o].project).ok)
          => (op[o].pc = "done" /\ op[o].status = 400))
  /\ [][\A o \in Ops :
          (op[o].kind = "none" /\ op'[o].kind = "delproject"
           /\ ~sanitizeProjectName(op'[o].project).ok)
          => UNCHANGED fsVars]_vars

\* The step calls executeClaudeCLI for the turn t.
Calls(t) == ~ucall[t].called /\ ucall'[t].called

\* C34: a turn is proxied by a worker that dequeued it, with the session id
\* and the project directory resolved by the request that launched that
\* worker: the directory is the cwd of the payload and its last element the
\* project_id, also when the request of the turn itself resolved another
\* directory, and the existence of the session file is probed in that
\* directory when the call is made.
C34_ProxiedWithLaunchersDirectory ==
  /\ [](\A t \in Turns :
          ucall[t].called
          => \E w \in dequeuer[t] :
               /\ wpc[w] # "none"
               /\ ucall[t].sessionID = hsid[w]
               /\ ucall[t].projectDir = hdir[w]
               /\ ucall[t].project_id = Base(hdir[w]))
  /\ [][\A t \in Turns :
          Calls(t) => \E w \in dequeuer[t] :
                        /\ wmsg[w] = t
                        /\ ucall'[t].sessionExists = FileExists(hdir[w], hsid[w])]_vars

\* A turn whose request resolved the base directory was proxied by the worker
\* of another turn with the directory projetos/p1 and the project_id p1, where
\* the session file was found.
C34_Witness ==
  \E t, w \in Turns :
    /\ t # w /\ dequeuer[t] = {w}
    /\ ucall[t].called
    /\ hdir[t] = BaseDir /\ hdir[w] = ProjetosDir("p1")
    /\ ucall[t].projectDir = ProjetosDir("p1") /\ ucall[t].project_id = "p1"
    /\ ucall[t].sessionExists /\ ~hexists[t] /\ ~hexists[w]

\* The event channel of the turn t is full: a send on it blocks.
Full(t) == Len(chan[t]) = ChanCap

Serving(w) == wmsg[w] # 0 /\ wpc[w] \in {"exec", "stream", "close"}

\* C36: a turn is dequeued by at most one worker and executeClaudeCLI is
\* called at most once for it, also while two workers run for one session: no
\* two workers serve the same turn, so a channel has one sender, and no
\* channel is closed twice or sent on after its close.
C36_TurnDequeuedOnce ==
  /\ \A t \in Turns :
       /\ Cardinality(dequeuer[t]) <= 1
       /\ ucall[t].calls <= 1
       /\ ucall[t].called => (ucall[t].calls = 1 /\ dequeuer[t] # {})
       /\ Occurrences(qmessages[IF hq[t] = NoQueue THEN 1 ELSE hq[t]], t)
          + Cardinality(dequeuer[t]) <= 1
  /\ \A w1, w2 \in Turns :
       (w1 # w2 /\ Serving(w1) /\ Serving(w2)) => wmsg[w1] # wmsg[w2]
  /\ ~chanPanic

\* Two workers run for one session at the same time, each reading the stream
\* of the upstream call of the turn it dequeued.
C36_Witness ==
  \E w1, w2 \in Turns :
    /\ w1 # w2 /\ hsid[w1] = hsid[w2]
    /\ wpc[w1] = "stream" /\ wpc[w2] = "stream"
    /\ wmsg[w1] # wmsg[w2]
    /\ ucall[wmsg[w1]].calls = 1 /\ ucall[wmsg[w2]].calls = 1
    /\ nread[wmsg[w1]] > 0 /\ nread[wmsg[w2]] > 0

\* The frames of the first n lines of the response to the call made for the
\* turn t.
ReplyFrames(t, n) ==
  [i \in 1..n |-> SSEMessage(MapLine(ReplyLine(t, i, env.frames), hsid[t])[1])]

\* C37: the frames written to the client of a turn followed by the events
\* buffered on its channel are the events of the lines read from the response
\* to the upstream call made for that turn, in order, or the one error event
\* of a call that failed, and nothing before the call: no event of the call
\* made for another turn is on the channel.
C37_EventsOfOwnCall ==
  \A t \in Turns :
    /\ ustate[t] = "none" => Events(t) = <<>>
    /\ ustate[t] = "failed" =>
         \E f \in env.failures : Events(t) = <<SSEMessage(ErrorEvent(f))>>
    /\ ustate[t] \in {"open", "eof", "err"} => Events(t) = ReplyFrames(t, nread[t])

\* Two turns of one session are served by two workers at the same time, each
\* by the worker the other's handler launched, and each client has received
\* the text of the response to its own call.
C37_Witness ==
  \E t, u \in Turns :
    /\ t # u /\ hsid[t] = hsid[u]
    /\ wmsg[t] = u /\ wmsg[u] = t
    /\ nread[t] > 0 /\ nread[u] > 0
    /\ Len(sse[t]) > 0 /\ sse[t][1].content = ToString(10 * t + 1)
    /\ Len(sse[u]) > 0 /\ sse[u][1].content = ToString(10 * u + 1)

\* The fork requests o1 and o2 name the same project and target, passed
\* validation and found their source files, and the target file was absent
\* when each of them arrived.
SameNewTarget(o1, o2) ==
  /\ o1 # o2
  /\ op[o1].kind = "fork" /\ op[o2].kind = "fork"
  /\ op[o1].project = op[o2].project /\ op[o1].target = op[o2].target
  /\ ~op[o1].present /\ ~op[o2].present
  /\ op[o1].status \notin {400, 401, 404} /\ op[o2].status \notin {400, 401, 404}
\* No request removes a file or a directory.
NoRemoval == \A o \in Ops : op[o].kind \notin {"delete", "delproject"}

\* C38: of two fork requests with the same project and target that both
\* arrived while the target did not exist, at most one succeeds and the other
\* is answered 409, and the write of a fork never finds the target file in
\* place (no request removing files in between).
C38_OneForkPerTarget ==
  /\ [](\A o1, o2 \in Ops :
          (SameNewTarget(o1, o2) /\ NoRemoval /\ op[o1].status = 200)
          => op[o2].status \in {0, 409})
  /\ [][\A o \in Ops :
          (NoRemoval /\ op[o].kind = "fork" /\ op[o].pc = "write"
           /\ op'[o].pc = "invalidate")
          => ~FileExists(ProjectsDir(op[o].project), op[o].target)]_vars

\* The handler of the turn t has reported a failed os.MkdirAll: the first frame
\* it wrote is the error frame of the locator.
MkdirFailed(t) == Len(sse[t]) > 0 /\ sse[t][1] = SSEMessage(ErrorEvent("mkdir"))

\* C39: when os.MkdirAll of the session locator fails, the handler writes one
\* error frame and returns: it has no queue, its turn is enqueued nowhere, no
\* worker was started and no upstream call made for it, and the step that
\* fails, like every later step, leaves the registry, the queues, the
\* filesystem and the cache as they are as far as this handler is concerned
\* (the handler takes no further step).
C39_MkdirFailureOnlyReportsError ==
  /\ [](\A t \in Turns :
          MkdirFailed(t)
          => /\ hpc[t] = "mkdirfailed"
             /\ sse[t] = <<SSEMessage(ErrorEvent("mkdir"))>>
             /\ hq[t] = NoQueue /\ ~Enqueued(t)
             /\ \A q \in QueueObjs : Occurrences(qmessages[q], t) = 0
             /\ wpc[t] = "none" /\ ustate[t] = "none" /\ ~ucall[t].called
             /\ chan[t] = <<>> /\ ~closed[t]
             /\ hprojects[t] = {})
  /\ [][\A t \in Turns :
          /\ (hpc[t] = "new" /\ MkdirFailed(t)')
             => UNCHANGED <<fsVars, sessionCache, queueVars, workerVars, ucall>>
          /\ MkdirFailed(t)
             => (hpc'[t] = hpc[t] /\ sse'[t] = sse[t] /\ hq'[t] = hq[t])]_vars

\* A chat request on a session without file failed to create projetos/p1 and
\* wrote its error frame, while the cache holds the entry a list request
\* stored before.
C39_Witness ==
  \E t \in Turns, o \in Ops :
    /\ MkdirFailed(t) /\ Len(sse[t]) = 1 /\ sse[t][1].type = "error"
    /\ hdir[t] = ProjetosDir("p1") /\ hdir[t] \notin fsDirs
    /\ op[o].kind = "list" /\ op[o].pc = "done"
    /\ sessionCache["p1"].present

====
